---- MODULE Spec2Model ----
(***************************************************************************)
(* web-ollama: the concurrent web-augmentation pipeline.                   *)
(*                                                                         *)
(*   SpecCrawl         the worker pool of one Crawler.CrawlURLs call        *)
(*   SpecCrawlFair     the same call under fair scheduling                  *)
(*   SpecSearch        one turn of main: the searches, their crawl batches, *)
(*                     the request and the saved messages                   *)
(*   SpecStream        the thinking/answer splitter Client.streamWithThinking *)
(*   SpecFragments     the splitter on fragments that can be told apart     *)
(*   SpecMain          startup checks and the prompt loop of main           *)
(*   SpecConversation  the turns of a session and what they save            *)
(*   SpecMessages      buildMessages on a saved session                     *)
(*   SpecContext       buildSearchContext on a list of crawl results        *)
(***************************************************************************)
EXTENDS Integers, Sequences, FiniteSets, TLC

\* ---------------------------------------------------------------- bounds
URLs == {"u1", "u2"}

\* longest URL list handed to CrawlURLs and longest search response
MaxURLs == 2

\* largest configured pool size (cfg.MaxCrawlers)
MaxPool == 2

\* largest cfg.MaxResults, the length a search response is cut to
MaxResults == 2

\* largest number of search queries of one turn
MaxQueries == 3

\* longest chat stream, in lines
MaxLines == 3

\* queries entered in one session of the conversation loop
MaxTurns == 3

\* largest byte ceiling of a Crawler, and the longest response body, in bytes
MaxSizeBound == 2
MaxBody == 3

\* the most words of a query handed to the heuristic analyzer
MaxWords == 5

\* the most results in a response of the search service
MaxHits == 3

\* the most words of a text handed to truncateWords
MaxTextWords == 502

\* the most nodes of a parsed document, the document node not counted
MaxNodes == 4

\* the longest chain of redirects a server answers with
MaxChain == 11

\* the most crawl results handed to buildSearchContext
MaxSources == 3

\* the most exchanges saved in one session of the conversation loop
MaxExchanges == 3

\* the most exchanges of a session handed to buildMessages
MaxSaved == 6

\* the most lines of a body of fragments that can be told apart
MaxChunks == 3

\* ---------------------------------------------------------------- helpers
Min(a, b) == IF a < b THEN a ELSE b

Max(a, b) == IF a > b THEN a ELSE b

SeqsUpTo(S, n) == UNION {[1..k -> S] : k \in 0..n}

Range(s) == {s[i] : i \in 1..Len(s)}

RECURSIVE Count(_, _)
Count(s, x) ==
  IF s = <<>> THEN 0
  ELSE (IF Head(s) = x THEN 1 ELSE 0) + Count(Tail(s), x)

\* ================================================================ crawler
VARIABLES
  maxWorkers,       \* Crawler.maxWorkers
  ctxDone,          \* the shared context has been cancelled
  caller,           \* who called CrawlURLs: "direct", "performSearch", "performMultiSearch"
  pc,               \* position of the calling goroutine
  urls,             \* argument of CrawlURLs
  numWorkers,       \* CrawlURLs: numWorkers
  spawned,          \* CrawlURLs: loop index i of the worker start loop
  sent,             \* CrawlURLs: number of jobs sent so far
  jobs,             \* chan string (buffered, cap len(urls))
  jobsClosed,
  results,          \* chan CrawlResult (buffered, cap len(urls))
  resultsClosed,
  wg,               \* sync.WaitGroup counter
  worker,           \* per worker goroutine: position, url and job in hand
  closer,           \* the goroutine that waits on wg and closes results
  crawlResults,     \* CrawlURLs: crawlResults
  returned,         \* value returned by the last CrawlURLs call
  panicked,         \* a goroutine panicked (send on a closed channel)
  numQueries,       \* performMultiSearch: len(queries)
  qi,               \* performMultiSearch: loop index (1-based)
  seenURLs,         \* performMultiSearch: seenURLs
  allURLs,          \* performMultiSearch: allURLs
  allCrawlResults,  \* performMultiSearch: allCrawlResults
  sourceURLs,       \* second return value of performSearch / performMultiSearch
  searchContext,    \* first return value of performSearch / performMultiSearch
  \* history variables
  taken,            \* number of jobs received from the jobs channel in this batch
  fetchCount,       \* per URL: executions of crawlSingle in this batch
  pendingAtCancel,  \* jobs whose request had not been answered when ctx was cancelled
  lateJobs,         \* jobs taken from the queue after ctx was cancelled
  dispatched,       \* the URLs handed to CrawlURLs in this turn, batch after batch
  firstSeen,        \* the URLs the searches of this turn returned, in first-seen order
  resultCount,      \* number of search results returned in this turn
  searchCalls,      \* number of Client.Search calls in this turn
  failedAt          \* the queries of this turn whose search failed or found nothing

crawlVars == <<maxWorkers, ctxDone, caller, pc, urls, numWorkers, spawned, sent,
               jobs, jobsClosed, results, resultsClosed, wg, worker, closer,
               crawlResults, returned, panicked, numQueries, qi, seenURLs,
               allURLs, allCrawlResults, sourceURLs, searchContext, taken, fetchCount,
               pendingAtCancel, lateJobs, dispatched, firstSeen, resultCount,
               searchCalls, failedAt>>

Workers == 1..MaxPool

\* CrawlResult.Error
ErrNil == "nil"
ErrNewRequest == "failed to create request"
ErrRequest == "request failed"
ErrStatus == "HTTP status"
ErrContentType == "non-HTML content type"
ErrReadBody == "failed to read body"
ErrExtract == "failed to extract text"

\* What http.Client.Do can make of a request built with the given context:
\* with a cancelled context the round trip returns the context's error.
\* "badurl" is http.NewRequestWithContext rejecting the URL.
DoOutcomes(done) ==
  IF done THEN {"badurl", "doerr"}
  ELSE {"badurl", "doerr", "status", "ctype", "ok"}

\* What reading and parsing the body can give once Do has returned a 200
\* HTML response. After a cancellation the read fails, unless the body had
\* already been received by the transport, in which case it is still read.
BodyOutcomes == {"readerr", "parseerr", "ok"}

RequestCtx_background(ctx) == FALSE

\* context handed to http.NewRequestWithContext by crawlSingle
RequestCtx(ctx) == ctx

crawlSingle_nourl(urlStr, job, outcome) ==
  [URL   |-> IF outcome = "ok" THEN urlStr ELSE "",
   Title |-> IF outcome = "ok" THEN "Title" ELSE "",
   Content |-> IF outcome = "ok" THEN "text" ELSE "",
   Error |-> IF outcome = "ok" THEN ErrNil ELSE ErrRequest,
   job   |-> job]

\* crawlSingle: the result for each path through the function
crawlSingle(urlStr, job, outcome) ==
  [URL   |-> urlStr,
   Title |-> IF outcome = "ok" THEN "Title" ELSE "",
   Content |-> IF outcome = "ok" THEN "text" ELSE "",
   Error |-> CASE outcome = "badurl"   -> ErrNewRequest
               [] outcome = "doerr"    -> ErrRequest
               [] outcome = "status"   -> ErrStatus
               [] outcome = "ctype"    -> ErrContentType
               [] outcome = "readerr"  -> ErrReadBody
               [] outcome = "parseerr" -> ErrExtract
               [] outcome = "ok"       -> ErrNil,
   job   |-> job]

IdleWorker == [pc |-> "none", url |-> "", job |-> 0]

InitCrawlVars ==
  /\ maxWorkers \in 1..MaxPool
  /\ ctxDone = FALSE
  /\ caller = "none"
  /\ pc = "main"
  /\ urls = <<>>
  /\ numWorkers = 0
  /\ spawned = 0
  /\ sent = 0
  /\ jobs = <<>>
  /\ jobsClosed = FALSE
  /\ results = <<>>
  /\ resultsClosed = FALSE
  /\ wg = 0
  /\ worker = [w \in Workers |-> IdleWorker]
  /\ closer = "none"
  /\ crawlResults = <<>>
  /\ returned = <<>>
  /\ panicked = FALSE
  /\ numQueries = 0
  /\ qi = 0
  /\ seenURLs = {}
  /\ allURLs = <<>>
  /\ allCrawlResults = <<>>
  /\ sourceURLs = <<>>
  /\ searchContext = <<>>   \* the empty string
  /\ taken = 0
  /\ fetchCount = [u \in URLs |-> 0]
  /\ pendingAtCancel = {}
  /\ lateJobs = {}
  /\ dispatched = <<>>
  /\ firstSeen = <<>>
  /\ resultCount = 0
  /\ searchCalls = 0
  /\ failedAt = {}

turnVars == <<dispatched, firstSeen, resultCount, searchCalls, failedAt>>
callerVars == <<caller, numQueries, qi, seenURLs, allURLs, allCrawlResults, sourceURLs,
                searchContext, turnVars>>
configVars == <<maxWorkers, ctxDone>>
chanVars == <<jobs, jobsClosed, results, resultsClosed>>
histVars == <<taken, fetchCount, pendingAtCancel, lateJobs>>

NumWorkers_single(maxW, n) == Min(1, n)

NumWorkers_uncapped(maxW, n) == maxW

\* numWorkers := c.maxWorkers; if len(urls) < numWorkers { numWorkers = len(urls) }
NumWorkers(maxW, n) == Min(maxW, n)

Buffer_one(list) == 1

\* lines 90-91: make(chan string, len(urls)), make(chan CrawlResult, len(urls))
Buffer(list) == Len(list)

\* `for url := range jobs` ends: the channel is closed and drained
RangeJobsDone == jobsClosed /\ jobs = <<>>

RangeResultsDone_empty == results = <<>>

\* `for result := range results` ends: the channel is closed and drained
RangeResultsDone == resultsClosed /\ results = <<>>

WaitReturns_nowait == TRUE

\* wg.Wait() returns
WaitReturns == wg = 0

\* CrawlURLs, from the call to the start of the worker loop (lines 84-100)
EnterCrawlURLs(list) ==
  /\ urls' = list
  /\ crawlResults' = <<>>
  /\ jobs' = <<>>
  /\ jobsClosed' = FALSE
  /\ results' = <<>>
  /\ resultsClosed' = FALSE
  /\ wg' = 0
  /\ worker' = [w \in Workers |-> IdleWorker]
  /\ closer' = "none"
  /\ spawned' = 0
  /\ sent' = 0
  /\ taken' = 0
  /\ fetchCount' = [u \in URLs |-> 0]
  /\ pendingAtCancel' = IF ctxDone THEN 1..Len(list) ELSE {}
  /\ lateJobs' = {}
  /\ numWorkers' = NumWorkers(maxWorkers, Len(list))
  /\ IF Len(list) = 0
       THEN /\ returned' = <<>>
            /\ pc' = "done"
       ELSE /\ returned' = returned
            /\ pc' = "workers"
  /\ UNCHANGED <<maxWorkers, ctxDone, panicked>>

\* a caller other than main's search path calls CrawlURLs with any list
CallCrawlURLs(list) ==
  /\ pc = "main"
  /\ caller' = "direct"
  /\ EnterCrawlURLs(list)
  /\ dispatched' = list
  /\ UNCHANGED <<numQueries, qi, seenURLs, allURLs, allCrawlResults, sourceURLs,
                 searchContext, firstSeen, resultCount, searchCalls, failedAt>>

\* CrawlURLs lines 101-109: one iteration of the worker start loop
StartWorker ==
  /\ pc = "workers"
  /\ spawned < numWorkers
  /\ spawned' = spawned + 1
  /\ wg' = wg + 1
  /\ worker' = [worker EXCEPT ![spawned + 1] = [pc |-> "range", url |-> "", job |-> 0]]
  /\ UNCHANGED <<configVars, callerVars, chanVars, histVars, pc, urls, numWorkers,
                 sent, closer, crawlResults, returned, panicked>>

\* CrawlURLs lines 112-114: jobs <- url
SendJob ==
  /\ pc = "workers"
  /\ spawned = numWorkers
  /\ sent < Len(urls)
  /\ Len(jobs) < Buffer(urls)
  /\ jobs' = Append(jobs, urls[sent + 1])
  /\ sent' = sent + 1
  /\ UNCHANGED <<configVars, callerVars, histVars, pc, urls, numWorkers, spawned,
                 jobsClosed, results, resultsClosed, wg, worker, closer,
                 crawlResults, returned, panicked>>

\* CrawlURLs lines 115-121: close(jobs) and start of the closing goroutine
CloseJobs ==
  /\ pc = "workers"
  /\ spawned = numWorkers
  /\ sent = Len(urls)
  /\ jobsClosed' = TRUE
  /\ closer' = "wait"
  /\ pc' = "collect"
  /\ UNCHANGED <<configVars, callerVars, histVars, urls, numWorkers, spawned, sent,
                 jobs, results, resultsClosed, wg, worker, crawlResults, returned,
                 panicked>>

\* worker, line 105: a url is received from jobs; crawlSingle starts (lines 133-154)
TakeJob(w) ==
  /\ worker[w].pc = "range"
  /\ jobs # <<>>
  /\ jobs' = Tail(jobs)
  /\ taken' = taken + 1
  /\ worker' = [worker EXCEPT ![w] = [pc |-> "do", url |-> Head(jobs), job |-> taken + 1]]
  /\ fetchCount' = [fetchCount EXCEPT ![Head(jobs)] = @ + 1]
  /\ lateJobs' = IF ctxDone THEN lateJobs \cup {taken + 1} ELSE lateJobs
  /\ UNCHANGED <<configVars, callerVars, pc, urls, numWorkers, spawned, sent,
                 jobsClosed, results, resultsClosed, wg, closer, crawlResults,
                 returned, panicked, pendingAtCancel>>

\* worker, line 106: results <- result
Deliver(w, result) ==
  /\ \/ resultsClosed
     \/ Len(results) < Buffer(urls)
  /\ IF resultsClosed
       THEN /\ panicked' = TRUE
            /\ results' = results
       ELSE /\ panicked' = panicked
            /\ results' = Append(results, result)
  /\ worker' = [worker EXCEPT ![w] = [pc |-> "range", url |-> "", job |-> 0]]

\* crawlSingle lines 142-175: request creation, httpClient.Do, status and
\* content type checks; a failure is returned and delivered at once
DoReturns(w, outcome) ==
  /\ worker[w].pc = "do"
  /\ outcome \in DoOutcomes(RequestCtx(ctxDone))
  /\ IF outcome = "ok"
       THEN /\ worker' = [worker EXCEPT ![w].pc = "body"]
            /\ UNCHANGED <<results, panicked>>
       ELSE Deliver(w, crawlSingle(worker[w].url, worker[w].job, outcome))
  /\ UNCHANGED <<configVars, callerVars, histVars, pc, urls, numWorkers, spawned,
                 sent, jobs, jobsClosed, resultsClosed, wg, closer, crawlResults,
                 returned>>

\* crawlSingle lines 178-197: ReadLimitedBody and ExtractText; the result is delivered
BodyReturns(w, outcome) ==
  /\ worker[w].pc = "body"
  /\ outcome \in BodyOutcomes
  /\ Deliver(w, crawlSingle(worker[w].url, worker[w].job, outcome))
  /\ UNCHANGED <<configVars, callerVars, histVars, pc, urls, numWorkers, spawned,
                 sent, jobs, jobsClosed, resultsClosed, wg, closer, crawlResults,
                 returned>>

\* worker, lines 104-107: the range loop ends and the deferred wg.Done() runs
WorkerExit(w) ==
  /\ worker[w].pc = "range"
  /\ RangeJobsDone
  /\ worker' = [worker EXCEPT ![w].pc = "exited"]
  /\ wg' = wg - 1
  /\ UNCHANGED <<configVars, callerVars, chanVars, histVars, pc, urls, numWorkers,
                 spawned, sent, closer, crawlResults, returned, panicked>>

\* closing goroutine, lines 118-121: wg.Wait(); close(results)
CloseResults ==
  /\ closer = "wait"
  /\ WaitReturns
  /\ closer' = "closed"
  /\ resultsClosed' = TRUE
  /\ UNCHANGED <<configVars, callerVars, histVars, pc, urls, numWorkers, spawned,
                 sent, jobs, jobsClosed, results, wg, worker, crawlResults,
                 returned, panicked>>

\* CrawlURLs lines 125-127: one result is received and appended
Collect ==
  /\ pc = "collect"
  /\ results # <<>>
  /\ crawlResults' = Append(crawlResults, Head(results))
  /\ results' = Tail(results)
  /\ UNCHANGED <<configVars, callerVars, histVars, pc, urls, numWorkers, spawned,
                 sent, jobs, jobsClosed, resultsClosed, wg, worker, closer,
                 returned, panicked>>

\* the shared context is cancelled (main.go line 581, or any caller's cancel)
Cancel ==
  /\ ~ctxDone
  /\ ctxDone' = TRUE
  /\ pendingAtCancel' =
       IF pc \in {"workers", "collect"}
         THEN (1..Len(urls)) \ ({r.job : r \in Range(results) \cup Range(crawlResults)}
                                  \cup {worker[w].job : w \in {v \in Workers : worker[v].pc = "body"}})
         ELSE {}
  /\ UNCHANGED <<maxWorkers, callerVars, chanVars, pc, urls, numWorkers, spawned,
                 sent, wg, worker, closer, crawlResults, returned, panicked,
                 taken, fetchCount, lateJobs>>

\* ================================================================ search context
\* buildSearchContext (main.go lines 962-988) on a list of crawl results
VARIABLES
  contextPc,       \* "call" before buildSearchContext ran, "returned" after
  contextResults,  \* its argument: the aggregated crawl results
  contextBlock     \* its result, as the list of the lines written

contextVars == <<contextPc, contextResults, contextBlock>>

\* the titles and texts ExtractText can give for a page
Titles == {"", "Title"}
Texts == {"", "text"}

\* what crawlSingle returns for a URL (types.go lines 136-197): a failure
\* carries neither title nor text, a success carries what ExtractText found
CrawlResults ==
  {[URL |-> u, Title |-> "", Content |-> "", Error |-> e] :
     u \in URLs, e \in {ErrRequest, ErrExtract}}
    \cup {[URL |-> u, Title |-> t, Content |-> c, Error |-> ErrNil] :
            u \in URLs, t \in Titles, c \in Texts}

\* a line written to the strings.Builder
ContextLine(kind, n, text) == [kind |-> kind, n |-> n, text |-> text]

\* the empty string
NoContext == <<>>

\* lines 966-967: written before the loop, whatever the results are
ContextHeader ==
  <<ContextLine("heading", 0, "# Web Search Results"),
    ContextLine("intro", 0, "The following information was retrieved from the web:")>>

Included_anySuccess(r) == r.Error = ErrNil

\* lines 971-977: a failed crawl and an empty content are skipped
Included(r) == r.Error = ErrNil /\ r.Content # ""

\* lines 979-982: the block of one source
SourceBlock(sourceNum, r) ==
  <<ContextLine("source", sourceNum, r.Title),
    ContextLine("url", 0, r.URL),
    ContextLine("content", 0, r.Content),
    ContextLine("rule", 0, "---")>>

\* lines 969-985: the loop; sourceNum advances with every block written
RECURSIVE WriteSources(_, _)
WriteSources(results_, sourceNum) ==
  IF results_ = <<>> THEN <<>>
  ELSE IF Included(Head(results_))
         THEN SourceBlock(sourceNum, Head(results_))
                \o WriteSources(Tail(results_), sourceNum + 1)
         ELSE WriteSources(Tail(results_), sourceNum)

buildSearchContext(results_) == ContextHeader \o WriteSources(results_, 1)

InitContextVars ==
  /\ contextPc = "call"
  /\ contextBlock = NoContext
  /\ contextResults \in SeqsUpTo(CrawlResults, MaxSources)

IdleContextVars ==
  /\ contextPc = "returned"
  /\ contextBlock = NoContext
  /\ contextResults = <<>>

\* main.go lines 892, 958: searchContext := buildSearchContext(...)
CallBuildSearchContext ==
  /\ contextPc = "call"
  /\ contextPc' = "returned"
  /\ contextBlock' = buildSearchContext(contextResults)
  /\ UNCHANGED contextResults

\* ================================================================ callers
\* What Client.Search returns: an error, or the result URLs (already cut to
\* cfg.MaxResults); a search with a cancelled context fails.
SearchResponses(done) ==
  IF done THEN {[err |-> TRUE, urls |-> <<>>]}
  ELSE {[err |-> TRUE, urls |-> <<>>]}
         \cup {[err |-> FALSE, urls |-> l] : l \in SeqsUpTo(URLs, MaxResults)}

\* performMultiSearch lines 928-935: the URLs of a response not seen before
NewURLs_noseen(resp, seen) == resp

RECURSIVE NewURLs(_, _)
NewURLs(resp, seen) ==
  IF resp = <<>> THEN <<>>
  ELSE IF Head(resp) \in seen
         THEN NewURLs(Tail(resp), seen)
         ELSE <<Head(resp)>> \o NewURLs(Tail(resp), seen \cup {Head(resp)})

\* performSearch lines 872-875: the URLs handed to the crawler
SearchURLs(resp) == resp

crawlerVars == <<urls, numWorkers, spawned, sent, jobs, jobsClosed, results,
                 resultsClosed, wg, worker, closer, crawlResults, returned,
                 panicked, taken, fetchCount, pendingAtCancel, lateJobs>>

\* the first occurrence of every element of s, in the order of s
RECURSIVE FirstOccurrences(_)
FirstOccurrences(s) ==
  IF s = <<>> THEN <<>>
  ELSE LET front == SubSeq(s, 1, Len(s) - 1)
           last == s[Len(s)]
       IN IF last \in Range(front) THEN FirstOccurrences(front)
          ELSE Append(FirstOccurrences(front), last)

\* the history of one Client.Search call (main.go lines 861, 914)
LogSearch(resp) ==
  /\ searchCalls' = searchCalls + 1
  /\ resultCount' = resultCount + Len(resp.urls)
  /\ firstSeen' = FirstOccurrences(firstSeen \o resp.urls)
  /\ failedAt' = IF resp.err \/ Len(resp.urls) = 0 THEN failedAt \cup {qi} ELSE failedAt

\* main.go line 714: main calls performMultiSearch with n queries; with one
\* query it delegates to performSearch (lines 898-900)
performMultiSearch(n) ==
  /\ pc = "main"
  /\ numQueries' = n
  /\ qi' = 1
  /\ caller' = IF n = 1 THEN "performSearch" ELSE "performMultiSearch"
  /\ pc' = "search"
  /\ seenURLs' = {}
  /\ allURLs' = <<>>
  /\ allCrawlResults' = <<>>
  /\ sourceURLs' = <<>>
  /\ searchContext' = NoContext
  /\ dispatched' = <<>>
  /\ firstSeen' = <<>>
  /\ resultCount' = 0
  /\ searchCalls' = 0
  /\ failedAt' = {}
  /\ UNCHANGED <<configVars, crawlerVars>>

\* performSearch lines 861-879: search, then crawl every result URL
performSearch(resp) ==
  /\ pc = "search"
  /\ caller = "performSearch"
  /\ resp \in SearchResponses(ctxDone)
  /\ LogSearch(resp)
  /\ IF resp.err \/ Len(resp.urls) = 0
       THEN /\ pc' = "done"
            /\ sourceURLs' = <<>>
            /\ searchContext' = NoContext
            /\ UNCHANGED <<configVars, crawlerVars, dispatched>>
       ELSE /\ EnterCrawlURLs(SearchURLs(resp.urls))
            /\ dispatched' = dispatched \o SearchURLs(resp.urls)
            /\ sourceURLs' = sourceURLs
            /\ searchContext' = searchContext
  /\ UNCHANGED <<caller, numQueries, qi, seenURLs, allURLs, allCrawlResults>>

\* performMultiSearch: the end of one loop iteration, and lines 944-959
\* after the last one
NextQuery ==
  IF qi = numQueries
    THEN /\ pc' = "done"
         /\ sourceURLs' = allURLs'
         /\ searchContext' = buildSearchContext(allCrawlResults')
         /\ qi' = qi
    ELSE /\ pc' = "search"
         /\ sourceURLs' = sourceURLs
         /\ searchContext' = searchContext
         /\ qi' = qi + 1

SkipQuery_abort ==
  /\ pc' = "done"
  /\ sourceURLs' = allURLs'
  /\ searchContext' = buildSearchContext(allCrawlResults')
  /\ qi' = qi

\* performMultiSearch lines 915-925: `continue` after a failed or empty search
SkipQuery == NextQuery

\* performMultiSearch lines 909-942: one query is searched and its new URLs crawled
SearchQuery(resp) ==
  /\ pc = "search"
  /\ caller = "performMultiSearch"
  /\ resp \in SearchResponses(ctxDone)
  /\ LogSearch(resp)
  /\ UNCHANGED allCrawlResults
  /\ IF resp.err \/ Len(resp.urls) = 0
       THEN /\ UNCHANGED <<seenURLs, allURLs, configVars, crawlerVars, dispatched>>
            /\ SkipQuery
       ELSE /\ seenURLs' = seenURLs \cup Range(resp.urls)
            /\ allURLs' = allURLs \o NewURLs(resp.urls, seenURLs)
            /\ IF Len(NewURLs(resp.urls, seenURLs)) > 0
                 THEN /\ EnterCrawlURLs(NewURLs(resp.urls, seenURLs))
                      /\ dispatched' = dispatched \o NewURLs(resp.urls, seenURLs)
                      /\ UNCHANGED <<qi, sourceURLs, searchContext>>
                 ELSE /\ UNCHANGED <<configVars, crawlerVars, dispatched>>
                      /\ NextQuery
  /\ UNCHANGED <<caller, numQueries>>

\* CrawlURLs line 129: the collect loop has ended and the list is returned;
\* the caller goes on (performSearch line 893, performMultiSearch line 940)
ReturnCrawlURLs ==
  /\ pc = "collect"
  /\ RangeResultsDone
  /\ returned' = crawlResults
  /\ CASE caller = "direct" ->
            /\ pc' = "done"
            /\ UNCHANGED <<qi, sourceURLs, searchContext, allURLs, allCrawlResults>>
       [] caller = "performSearch" ->
            /\ pc' = "done"
            /\ sourceURLs' = urls
            /\ searchContext' = buildSearchContext(crawlResults)
            /\ UNCHANGED <<qi, allURLs, allCrawlResults>>
       [] caller = "performMultiSearch" ->
            /\ allCrawlResults' = allCrawlResults \o crawlResults
            /\ allURLs' = allURLs
            /\ NextQuery
  /\ UNCHANGED <<configVars, chanVars, histVars, turnVars, caller, numQueries,
                 seenURLs, urls, numWorkers, spawned, sent, wg, worker, closer,
                 crawlResults, panicked>>

\* ================================================================ splitter
VARIABLES
  stream,         \* the lines of the response body
  streamPos,      \* lines consumed by scanner.Scan
  callbacks,      \* StreamCallbacks: which of the three callbacks are non-nil
  thinkingBuf,    \* streamWithThinking: thinkingBuf, as the list of written fragments
  answerBuf,      \* streamWithThinking: answerBuf
  wasThinking,
  isFirstAnswer,
  streamPc,       \* "scan" while in the loop, "returned" after it
  chatReturn,     \* ChatWithCallbacks: the named results (thinking, answer, err)
  events          \* history: the callback invocations, in order

streamVars == <<stream, streamPos, callbacks, thinkingBuf, answerBuf,
                wasThinking, isFirstAnswer, streamPc, chatReturn, events>>

Fragments == {"", "x"}

ErrScanner == "scanner error"
ErrStream == "failed to stream response"

\* a line of the body: empty, a line json.Unmarshal rejects (the fields are
\* what the failed decode left in chunk), or a ChatResponse chunk
Lines ==
  {[kind |-> "empty", Thinking |-> "", Content |-> "", Done |-> FALSE],
   [kind |-> "malformed", Thinking |-> "", Content |-> "x", Done |-> FALSE]}
    \cup {[kind |-> "chunk", Thinking |-> t, Content |-> c, Done |-> d] :
            t \in Fragments, c \in Fragments, d \in BOOLEAN}

\* fragments that can be told apart; content may carry the tags of a model
\* that writes its reasoning into the answer text
ReasoningFragments == {"", "r1", "r2"}
OpenTag == "<think>"
CloseTag == "</think>"
AnswerFragments == {"", "a1", OpenTag, CloseTag}

TaggedLines ==
  {[kind |-> "empty", Thinking |-> "", Content |-> "", Done |-> FALSE],
   [kind |-> "chunk", Thinking |-> "", Content |-> "", Done |-> TRUE]}
    \cup {[kind |-> "chunk", Thinking |-> t, Content |-> c, Done |-> FALSE] :
            t \in ReasoningFragments, c \in AnswerFragments}

\* the named results of ChatWithCallbacks before any return statement ran
ZeroReturn == [thinking |-> <<>>, answer |-> <<>>, err |-> ErrNil]

InitStreamVars ==
  /\ stream \in SeqsUpTo(Lines, MaxLines)
  /\ callbacks \in [OnThinking : BOOLEAN, OnAnswer : BOOLEAN, OnDone : BOOLEAN]
  /\ streamPos = 0
  /\ thinkingBuf = <<>>
  /\ answerBuf = <<>>
  /\ wasThinking = FALSE
  /\ isFirstAnswer = TRUE
  /\ streamPc = "scan"
  /\ chatReturn = ZeroReturn
  /\ events = <<>>

InitTaggedStreamVars ==
  /\ callbacks \in [OnThinking : BOOLEAN, OnAnswer : BOOLEAN, OnDone : BOOLEAN]
  /\ streamPos = 0
  /\ thinkingBuf = <<>>
  /\ answerBuf = <<>>
  /\ wasThinking = FALSE
  /\ isFirstAnswer = TRUE
  /\ streamPc = "scan"
  /\ chatReturn = ZeroReturn
  /\ events = <<>>
  /\ stream \in SeqsUpTo(TaggedLines, MaxChunks)

IdleStreamVars ==
  /\ stream = <<>>
  /\ callbacks = [OnThinking |-> TRUE, OnAnswer |-> TRUE, OnDone |-> TRUE]
  /\ streamPos = 0
  /\ thinkingBuf = <<>>
  /\ answerBuf = <<>>
  /\ wasThinking = FALSE
  /\ isFirstAnswer = TRUE
  /\ streamPc = "returned"
  /\ chatReturn = ZeroReturn
  /\ events = <<>>

Event(cb, arg) == [cb |-> cb, arg |-> arg]

\* lines 85-92: the thinking field of a chunk
ThinkingEvents(chunk) ==
  IF chunk.Thinking # "" /\ callbacks.OnThinking
    THEN <<Event("OnThinking", chunk.Thinking)>>
    ELSE <<>>

CallsOnDone_every(chunk) ==
  /\ chunk.Content # ""
  /\ (wasThinking \/ chunk.Thinking # "")
  /\ callbacks.OnDone

\* line 98, evaluated after the thinking field of the same chunk was handled
CallsOnDone(chunk) ==
  /\ chunk.Content # ""
  /\ (wasThinking \/ chunk.Thinking # "")
  /\ isFirstAnswer
  /\ callbacks.OnDone

AnswerEvents_late(chunk) ==
  IF chunk.Content = "" THEN <<>>
  ELSE (IF callbacks.OnAnswer THEN <<Event("OnAnswer", chunk.Content)>> ELSE <<>>)
         \o (IF CallsOnDone(chunk) THEN <<Event("OnDone", "")>> ELSE <<>>)

\* lines 95-107: the content field of a chunk
AnswerEvents(chunk) ==
  IF chunk.Content = "" THEN <<>>
  ELSE (IF CallsOnDone(chunk) THEN <<Event("OnDone", "")>> ELSE <<>>)
         \o (IF callbacks.OnAnswer THEN <<Event("OnAnswer", chunk.Content)>> ELSE <<>>)

Breaks_never(chunk) == FALSE

\* lines 109-111: if chunk.Done { break }
Breaks(chunk) == chunk.Done

Skipped_emptyOnly(line) == line.kind = "empty"

\* lines 74-82: len(line) == 0, or json.Unmarshal returned an error
Skipped(line) == line.kind # "chunk"

ChatReturns_discard(thinking, answer, err) ==
  IF err # ErrNil THEN [thinking |-> <<>>, answer |-> <<>>, err |-> ErrStream]
  ELSE [thinking |-> thinking, answer |-> answer, err |-> ErrNil]

\* lines 114-118 and 56-61: what streamWithThinking returns, as passed on by
\* ChatWithCallbacks
ChatReturns(thinking, answer, err) ==
  [thinking |-> thinking, answer |-> answer,
   err |-> IF err # ErrNil THEN ErrStream ELSE ErrNil]

\* lines 121-137: processThinkingTags, which no function calls; a fragment
\* is a tag or tag-free text here, so Contains is equality and ReplaceAll
\* leaves the empty string
processThinkingTags(content, inThinking, thinkingDone) ==
  LET opened == content = OpenTag
      closed == content = CloseTag
  IN [content |-> IF opened \/ closed THEN "" ELSE content,
      inThinking |-> IF closed THEN FALSE ELSE (IF opened THEN TRUE ELSE inThinking),
      thinkingDone |-> IF closed THEN TRUE ELSE thinkingDone]

Written_front(buf, fragment) ==
  IF fragment = "" THEN buf ELSE <<fragment>> \o buf

\* lines 85-86 and 95, 105: a non-empty field is written to the end of its
\* buffer, whether or not a callback is installed
Written(buf, fragment) ==
  IF fragment = "" THEN buf ELSE Append(buf, fragment)

\* lines 72-82: an empty line or a line that is not JSON is skipped
SkipLine ==
  /\ streamPc = "scan"
  /\ streamPos < Len(stream)
  /\ Skipped(stream[streamPos + 1])
  /\ streamPos' = streamPos + 1
  /\ UNCHANGED <<stream, callbacks, thinkingBuf, answerBuf, wasThinking,
                 isFirstAnswer, streamPc, chatReturn, events>>

\* lines 84-118: one chunk is processed; after a break scanner.Err() is nil,
\* or the error of a read that failed while this line was buffered
ProcessChunk ==
  /\ streamPc = "scan"
  /\ streamPos < Len(stream)
  /\ ~Skipped(stream[streamPos + 1])
  /\ LET chunk == stream[streamPos + 1] IN
       /\ streamPos' = streamPos + 1
       /\ wasThinking' = (wasThinking \/ chunk.Thinking # "")
       /\ thinkingBuf' = Written(thinkingBuf, chunk.Thinking)
       /\ isFirstAnswer' = IF CallsOnDone(chunk) THEN FALSE ELSE isFirstAnswer
       /\ answerBuf' = Written(answerBuf, chunk.Content)
       /\ events' = events \o ThinkingEvents(chunk) \o AnswerEvents(chunk)
       /\ IF Breaks(chunk)
            THEN /\ streamPc' = "returned"
                 /\ \E err \in {ErrNil, ErrScanner} :
                      chatReturn' = ChatReturns(thinkingBuf', answerBuf', err)
            ELSE UNCHANGED <<streamPc, chatReturn>>
  /\ UNCHANGED <<stream, callbacks>>

\* lines 72, 114-118: scanner.Scan reports the end of the body
ScanEnds ==
  /\ streamPc = "scan"
  /\ streamPos = Len(stream)
  /\ streamPc' = "returned"
  /\ chatReturn' = ChatReturns(thinkingBuf, answerBuf, ErrNil)
  /\ UNCHANGED <<stream, streamPos, callbacks, thinkingBuf, answerBuf,
                 wasThinking, isFirstAnswer, events>>

\* lines 72, 114-116: the transport fails, scanner.Scan returns false and
\* scanner.Err() is the read error; the lines not yet consumed are lost
ScanFails ==
  /\ streamPc = "scan"
  /\ streamPc' = "returned"
  /\ chatReturn' = ChatReturns(thinkingBuf, answerBuf, ErrScanner)
  /\ UNCHANGED <<stream, streamPos, callbacks, thinkingBuf, answerBuf,
                 wasThinking, isFirstAnswer, events>>

\* ================================================================ main loop
VARIABLES
  loopPc,        \* main: "health", "model", "searxng" at startup, then
                 \* "prompt", "analyze", "search", "chat"; "ended"
  searxngErr,    \* history: the SearXNG health check of startup failed
  autoSearch,    \* cfg.AutoSearch after the SearXNG health check
  turn,          \* number of queries read so far
  decision,      \* first result of AnalyzeWithLLM in this turn
  analysisErr,   \* second result of AnalyzeWithLLM in this turn
  searchQueries, \* main: len(searchQueries) handed to performMultiSearch
  searched,      \* history: Client.Search calls of this turn
  crawled,       \* history: URLs handed to the crawler in this turn
  chatSent,      \* history: chat requests sent in this turn
  saved,         \* number of messages added to the history in this session
  failures,      \* history: the kinds of failure met so far in this session
  endCause       \* history: what ended the loop

mainVars == <<loopPc, searxngErr, autoSearch, turn, decision, analysisErr, searchQueries,
              searched, crawled, chatSent, saved, failures, endCause>>

ErrLLMCall == "LLM call failed"
ErrParse == "failed to parse LLM response"

\* SearchDecision{}: needs_search false, no queries
ZeroDecision == [NeedsSearch |-> FALSE, SearchQueries |-> 0]

Decisions == [NeedsSearch : BOOLEAN, SearchQueries : 0..MaxQueries]

\* What ChatSync hands to AnalyzeWithLLM: an error, or a reply. A reply is
\* its lead (nothing, the json fence, a bare fence, a fence with another tag
\* such as JSON in capitals, or prose before the JSON), its body (decision JSON,
\* JSON with a field of the wrong type, or text that is not JSON) and the
\* decision the body spells.
Leads == {"", "fence json", "fence", "fence JSON", "prose"}
Bodies == {"json", "wrongtype", "notjson"}
Replies == [err : {FALSE}, lead : Leads, body : Bodies, d : Decisions]
             \cup [err : {TRUE}, lead : {""}, body : {"notjson"}, d : {ZeroDecision}]

\* lines 78-87: TrimSpace, then the fence is cut off; a prefix the two
\* HasPrefix tests do not cover stays in front of the body
StripFence(reply) ==
  [junk |-> IF reply.lead \in {"", "fence json", "fence"} THEN FALSE ELSE TRUE,
   body |-> reply.body, d |-> reply.d]

\* line 89: json.Unmarshal into decision; a syntax error leaves decision
\* untouched, a type error leaves the fields decoded so far
Unmarshal(text) ==
  IF text.junk \/ text.body = "notjson" THEN [err |-> TRUE, decision |-> ZeroDecision]
  ELSE IF text.body = "wrongtype"
         THEN [err |-> TRUE, decision |-> [text.d EXCEPT !.SearchQueries = 0]]
         ELSE [err |-> FALSE, decision |-> text.d]

AnalyzeWithLLM_partial(reply) ==
  IF reply.err THEN [decision |-> ZeroDecision, err |-> ErrLLMCall]
  ELSE [decision |-> Unmarshal(StripFence(reply)).decision,
        err |-> IF Unmarshal(StripFence(reply)).err THEN ErrParse ELSE ErrNil]

\* llm_analyzer.go lines 69-93
AnalyzeWithLLM(reply) ==
  IF reply.err THEN [decision |-> ZeroDecision, err |-> ErrLLMCall]
  ELSE IF Unmarshal(StripFence(reply)).err
         THEN [decision |-> ZeroDecision, err |-> ErrParse]
         ELSE [decision |-> Unmarshal(StripFence(reply)).decision, err |-> ErrNil]

\* main.go lines 596-627: what terminal.ReadUserInput returned
Inputs == {"eof", "exit", "command", "empty", "query"}

\* what performMultiSearch met: failed searches, URLs crawled, failed crawls
SearchOutcomes(n) ==
  {o \in [failedSearches : 0..n, urls : 0..MaxURLs, failedCrawls : 0..MaxURLs] :
     /\ o.failedCrawls <= o.urls
     /\ (o.failedSearches = n => o.urls = 0)}

\* what ChatWithCallbacks returned: its error
ChatOutcomes == {ErrRequest, ErrStatus, ErrStream, ErrNil}

\* main.go lines 542-559: the steps of startup, in order
StartupPcs == {"health", "model", "searxng"}

\* main.go lines 589-785: the conversation loop
LoopPcs == {"prompt", "analyze", "search", "chat"}

\* what the SearXNG health check request met: a status code, or 0 for no answer
HealthOutcomes == {0, 200, 403, 404, 500, 503}

\* part_001 lines 88-115: Client.HealthCheck of the search client
HealthCheck(o) ==
  IF o = 0 THEN "SearXNG is unreachable"
  ELSE IF o = 403 THEN "SearXNG API access forbidden"
  ELSE IF o >= 500 THEN "SearXNG returned server error"
  ELSE ErrNil

InitMainVars ==
  /\ loopPc = "health"
  /\ searxngErr = FALSE
  /\ autoSearch \in BOOLEAN
  /\ turn = 0
  /\ decision = ZeroDecision
  /\ analysisErr = ErrNil
  /\ searchQueries = 0
  /\ searched = 0
  /\ crawled = 0
  /\ chatSent = 0
  /\ saved = 0
  /\ failures = {}
  /\ endCause = "none"

IdleMainVars ==
  /\ loopPc = "ended"
  /\ searxngErr = FALSE
  /\ autoSearch = TRUE
  /\ turn = 0
  /\ decision = ZeroDecision
  /\ analysisErr = ErrNil
  /\ searchQueries = 0
  /\ searched = 0
  /\ crawled = 0
  /\ chatSent = 0
  /\ saved = 0
  /\ failures = {}
  /\ endCause = "none"

\* main.go lines 542-547: the Ollama health check; its failure exits
OllamaHealthCheck(err) ==
  /\ loopPc = "health"
  /\ IF err # ErrNil
       THEN loopPc' = "ended" /\ endCause' = "health"
       ELSE loopPc' = "model" /\ UNCHANGED endCause
  /\ UNCHANGED <<searxngErr, autoSearch, turn, decision, analysisErr, searchQueries,
                 searched, crawled, chatSent, saved, failures>>

\* main.go lines 549-552: checkModel; its failure exits
CheckModel(err) ==
  /\ loopPc = "model"
  /\ IF err # ErrNil
       THEN loopPc' = "ended" /\ endCause' = "model"
       ELSE loopPc' = "searxng" /\ UNCHANGED endCause
  /\ UNCHANGED <<searxngErr, autoSearch, turn, decision, analysisErr, searchQueries,
                 searched, crawled, chatSent, saved, failures>>

\* auto-search left as configured after a failed check
AfterHealthFailure_keep(auto) == auto

\* main.go line 558: cfg.AutoSearch = false
AfterHealthFailure(auto) == FALSE

\* main.go lines 554-559: the SearXNG health check; its failure switches
\* auto-search off and startup goes on to the loop
SearXNGHealthCheck(o) ==
  /\ loopPc = "searxng"
  /\ IF HealthCheck(o) # ErrNil
       THEN /\ searxngErr' = TRUE
            /\ autoSearch' = AfterHealthFailure(autoSearch)
       ELSE UNCHANGED <<searxngErr, autoSearch>>
  /\ loopPc' = "prompt"
  /\ UNCHANGED <<turn, decision, analysisErr, searchQueries, searched, crawled,
                 chatSent, saved, failures, endCause>>

\* main.go lines 590-627: the prompt, the commands, the empty query
ReadInput(input) ==
  /\ loopPc = "prompt"
  /\ CASE input = "eof" ->
            /\ loopPc' = "ended"
            /\ endCause' = "eof"
            /\ UNCHANGED <<turn, decision, analysisErr, searchQueries, searched,
                           crawled, chatSent>>
       [] input = "exit" ->
            /\ loopPc' = "ended"
            /\ endCause' = "exit"
            /\ UNCHANGED <<turn, decision, analysisErr, searchQueries, searched,
                           crawled, chatSent>>
       [] input \in {"command", "empty"} ->
            UNCHANGED <<loopPc, endCause, turn, decision, analysisErr,
                        searchQueries, searched, crawled, chatSent>>
       [] input = "query" ->
            /\ turn < MaxTurns
            /\ turn' = turn + 1
            /\ loopPc' = IF autoSearch THEN "analyze" ELSE "chat"
            /\ decision' = ZeroDecision
            /\ analysisErr' = ErrNil
            /\ searchQueries' = 0
            /\ searched' = 0
            /\ crawled' = 0
            /\ chatSent' = 0
            /\ UNCHANGED endCause
  /\ UNCHANGED <<searxngErr, autoSearch, saved, failures>>

\* main.go lines 688-717: the decision call and what main makes of it
Analyze(reply) ==
  /\ loopPc = "analyze"
  /\ decision' = AnalyzeWithLLM(reply).decision
  /\ analysisErr' = AnalyzeWithLLM(reply).err
  /\ IF analysisErr' # ErrNil
       THEN /\ failures' = failures \cup {"analysis"}
            /\ loopPc' = "chat"
            /\ UNCHANGED searchQueries
       ELSE /\ UNCHANGED failures
            /\ IF decision'.NeedsSearch
                 THEN /\ searchQueries' = IF decision'.SearchQueries = 0 THEN 1
                                          ELSE decision'.SearchQueries
                      /\ loopPc' = "search"
                 ELSE /\ UNCHANGED searchQueries
                      /\ loopPc' = "chat"
  /\ UNCHANGED <<searxngErr, autoSearch, turn, searched, crawled, chatSent, saved, endCause>>

\* main.go line 714: performMultiSearch returns a context and a source list,
\* never an error
Search(o) ==
  /\ loopPc = "search"
  /\ o \in SearchOutcomes(searchQueries)
  /\ searched' = searchQueries
  /\ crawled' = o.urls
  /\ failures' = failures \cup (IF o.failedSearches > 0 THEN {"search"} ELSE {})
                          \cup (IF o.failedCrawls > 0 THEN {"crawl"} ELSE {})
  /\ loopPc' = "chat"
  /\ UNCHANGED <<searxngErr, autoSearch, turn, decision, analysisErr, searchQueries,
                 chatSent, saved, endCause>>

AfterChatError_fatal == "ended"

\* main.go lines 750-753: PrintError, continue
AfterChatError == "prompt"

\* main.go lines 720-784: the chat request, and the two messages saved when
\* it succeeded
Chat(err) ==
  /\ loopPc = "chat"
  /\ chatSent' = chatSent + 1
  /\ IF err # ErrNil
       THEN /\ failures' = failures \cup {"chat"}
            /\ loopPc' = AfterChatError
            /\ UNCHANGED saved
       ELSE /\ saved' = saved + 2
            /\ loopPc' = "prompt"
            /\ UNCHANGED failures
  /\ UNCHANGED <<searxngErr, autoSearch, turn, decision, analysisErr, searchQueries,
                 searched, crawled, endCause>>

\* main.go lines 570-583: the signal handler, installed after startup, cancels
\* the context and exits
Signal ==
  /\ loopPc \in LoopPcs
  /\ Cancel
  /\ loopPc' = "ended"
  /\ endCause' = "signal"
  /\ UNCHANGED <<searxngErr, autoSearch, turn, decision, analysisErr, searchQueries,
                 searched, crawled, chatSent, saved, failures>>

\* ================================================================ crawlSingle
VARIABLES
  fetchPc,       \* crawlSingle: "request", "do", "check", "read", "extract", "returned"
  urlStr,        \* crawlSingle: the requested URL
  maxSize,       \* Crawler.maxSize
  resp,          \* the response httpClient.Do returned
  bytesRead,     \* history: bytes read from resp.Body
  body,          \* the bytes ReadLimitedBody returned
  extractCalls,  \* history: calls of ExtractText
  result         \* crawlSingle: result

fetchVars == <<fetchPc, urlStr, maxSize, resp, bytesRead, body, extractCalls, result>>

\* strings.ToLower, on the letters
LowerOf == [A |-> "a", B |-> "b", C |-> "c", D |-> "d", E |-> "e", F |-> "f", G |-> "g", H |-> "h", I |-> "i", J |-> "j", K |-> "k", L |-> "l", M |-> "m", N |-> "n", O |-> "o", P |-> "p", Q |-> "q", R |-> "r", S |-> "s", T |-> "t", U |-> "u", V |-> "v", W |-> "w", X |-> "x", Y |-> "y", Z |-> "z"]

ToLower(s) == [i \in 1..Len(s) |-> IF s[i] \in DOMAIN LowerOf THEN LowerOf[s[i]] ELSE s[i]]

\* strings.Contains
Contains(s, substr) ==
  \E i \in 0..(Len(s) - Len(substr)) : SubSeq(s, i + 1, i + Len(substr)) = substr

TextHTML == <<"t", "e", "x", "t", "/", "h", "t", "m", "l">>
AppXHTML == <<"a", "p", "p", "l", "i", "c", "a", "t", "i", "o", "n", "/", "x", "h", "t", "m", "l">>

\* Content-Type headers, as strings of characters; the first is the absent header
CTAbsent == <<>>
CTHtml == <<"t", "e", "x", "t", "/", "h", "t", "m", "l">>
CTHtmlCharset == <<"t", "e", "x", "t", "/", "h", "t", "m", "l", ";", " ", "c", "h", "a", "r", "s", "e", "t", "=", "u", "t", "f", "-", "8">>
CTHtmlUpper == <<"T", "E", "X", "T", "/", "H", "T", "M", "L">>
CTHtmlMixed == <<"T", "e", "x", "t", "/", "H", "T", "M", "L", ";", " ", "c", "h", "a", "r", "s", "e", "t", "=", "U", "T", "F", "-", "8">>
CTXhtml == <<"a", "p", "p", "l", "i", "c", "a", "t", "i", "o", "n", "/", "x", "h", "t", "m", "l", "+", "x", "m", "l">>
CTPdf == <<"a", "p", "p", "l", "i", "c", "a", "t", "i", "o", "n", "/", "p", "d", "f">>
CTPlain == <<"t", "e", "x", "t", "/", "p", "l", "a", "i", "n">>
CTShort == <<"t", "e", "x", "t", "/", "h", "t", "m">>
CTJson == <<"a", "p", "p", "l", "i", "c", "a", "t", "i", "o", "n", "/", "j", "s", "o", "n">>

ContentTypes == {CTAbsent, CTHtml, CTHtmlCharset, CTHtmlUpper, CTHtmlMixed, CTXhtml, CTPdf, CTPlain, CTShort, CTJson}

contains_length(s, substr) == Len(s) >= Len(substr)

\* types.go lines 201-206
contains(s, substr) ==
  /\ Len(s) >= Len(substr)
  /\ \/ s = substr
     \/ /\ Len(s) > Len(substr)
        /\ \/ SubSeq(s, 1, Len(substr)) = substr
           \/ Contains(ToLower(s), ToLower(substr))

StatusCodes == {200, 204, 404, 500}

\* a body is a string of bytes: "t" stands for a title element, "w" for a
\* word of body text
Bodies_bytes == SeqsUpTo({"t", "w"}, MaxBody)

\* the responses httpClient.Do can return; ContentLength is -1 when the
\* header is absent, ReadErr tells whether the transport fails while the
\* body is read
Responses ==
  {r \in [StatusCode : StatusCodes, ContentType : ContentTypes,
          ContentLength : (-1)..MaxBody, Body : Bodies_bytes, ReadErr : BOOLEAN] :
     r.ContentLength \in {-1, Len(r.Body)}}

NoResponse ==
  [StatusCode |-> 0, ContentType |-> <<>>, ContentLength |-> -1, Body |-> <<>>,
   ReadErr |-> FALSE]

\* the URLs crawlSingle is called with; http.NewRequestWithContext rejects the last
RequestURLs == URLs \cup {"bad url"}

ReadLimitedBody_all(b, maxBytes) == b

\* extractor.go lines 110-114: io.ReadAll(io.LimitReader(body, maxBytes))
ReadLimitedBody(b, maxBytes) == SubSeq(b, 1, Min(Len(b), maxBytes))

\* extractor.go lines 13-32: the title and the text of the parsed bytes
ExtractText(b) ==
  [title |-> IF "t" \in Range(b) THEN "T" ELSE "",
   text |-> SelectSeq(b, LAMBDA c : c = "w")]

\* types.go lines 136-139
NewResult(u) == [URL |-> u, Title |-> "", Content |-> <<>>, Error |-> ErrNil,
                 Duration |-> "zero"]

Fail_noduration(res, outcome) ==
  [res EXCEPT !.Error = crawlSingle(res.URL, 0, outcome).Error]

\* the failure returns of crawlSingle: result.Error and result.Duration are set
Fail(res, outcome) ==
  [res EXCEPT !.Error = crawlSingle(res.URL, 0, outcome).Error, !.Duration = "elapsed"]

InitFetchVars ==
  /\ fetchPc = "request"
  /\ urlStr \in RequestURLs
  /\ maxSize \in 1..MaxSizeBound
  /\ resp = NoResponse
  /\ bytesRead = 0
  /\ body = <<>>
  /\ extractCalls = 0
  /\ result = NewResult(urlStr)

IdleFetchVars ==
  /\ fetchPc = "returned"
  /\ urlStr = ""
  /\ maxSize = 1
  /\ resp = NoResponse
  /\ bytesRead = 0
  /\ body = <<>>
  /\ extractCalls = 0
  /\ result = NewResult("")

\* types.go lines 142-151: http.NewRequestWithContext
NewRequest ==
  /\ fetchPc = "request"
  /\ IF urlStr = "bad url"
       THEN /\ result' = Fail(result, "badurl")
            /\ fetchPc' = "returned"
       ELSE /\ fetchPc' = "do"
            /\ UNCHANGED result
  /\ UNCHANGED <<urlStr, maxSize, resp, bytesRead, body, extractCalls>>

\* types.go lines 154-160: httpClient.Do fails
DoFails ==
  /\ fetchPc = "do"
  /\ result' = Fail(result, "doerr")
  /\ fetchPc' = "returned"
  /\ UNCHANGED <<urlStr, maxSize, resp, bytesRead, body, extractCalls>>

\* types.go line 154: httpClient.Do returns a response
Do(r) ==
  /\ fetchPc = "do"
  /\ r \in Responses
  /\ resp' = r
  /\ fetchPc' = "check"
  /\ UNCHANGED <<urlStr, maxSize, bytesRead, body, extractCalls, result>>

\* types.go lines 163-175: the status code and the content type
CheckResponse ==
  /\ fetchPc = "check"
  /\ IF resp.StatusCode # 200
       THEN /\ result' = Fail(result, "status")
            /\ fetchPc' = "returned"
       ELSE IF /\ resp.ContentType # <<>>
               /\ ~contains(resp.ContentType, TextHTML)
               /\ ~contains(resp.ContentType, AppXHTML)
              THEN /\ result' = Fail(result, "ctype")
                   /\ fetchPc' = "returned"
              ELSE /\ fetchPc' = "read"
                   /\ UNCHANGED result
  /\ UNCHANGED <<urlStr, maxSize, resp, bytesRead, body, extractCalls>>

\* types.go lines 178-183: the body is read; when the read fails after n
\* bytes the bytes are dropped
ReadBody(n) ==
  /\ fetchPc = "read"
  /\ IF resp.ReadErr
       THEN /\ n \in 0..Len(ReadLimitedBody(resp.Body, maxSize))
            /\ bytesRead' = n
            /\ result' = Fail(result, "readerr")
            /\ fetchPc' = "returned"
            /\ UNCHANGED body
       ELSE /\ n = Len(ReadLimitedBody(resp.Body, maxSize))
            /\ bytesRead' = n
            /\ body' = ReadLimitedBody(resp.Body, maxSize)
            /\ fetchPc' = "extract"
            /\ UNCHANGED result
  /\ UNCHANGED <<urlStr, maxSize, resp, extractCalls>>

\* types.go lines 186-197: ExtractText, and the successful return
Extract(parseErr) ==
  /\ fetchPc = "extract"
  /\ extractCalls' = extractCalls + 1
  /\ result' = IF parseErr THEN Fail(result, "parseerr")
               ELSE [result EXCEPT !.Title = ExtractText(body).title,
                                   !.Content = ExtractText(body).text,
                                   !.Duration = "elapsed"]
  /\ fetchPc' = "returned"
  /\ UNCHANGED <<urlStr, maxSize, resp, bytesRead, body>>

\* ================================================================ redirects
\* The redirects httpClient.Do follows inside crawlSingle (types.go lines 66-75).
\* redirects: the number of redirect responses the server gives before its final
\* response; via: the requests made already; redirectErr: CheckRedirect refused.
VARIABLES
  redirects,
  via,
  redirectErr

redirVars == <<redirects, via, redirectErr>>

\* types.go line 70: the limit CheckRedirect compares len(via) with
MaxRedirects == 10

ErrTooManyRedirects == "too many redirects"

\* types.go lines 68-73: CheckRedirect, called by net/http before each redirect
\* is followed with the requests made already
CheckRedirect(n) == IF n >= MaxRedirects THEN ErrTooManyRedirects ELSE ErrNil

InitRedirVars ==
  /\ redirects \in 0..MaxChain
  /\ via = 0
  /\ redirectErr = FALSE

IdleRedirVars ==
  /\ redirects = 0
  /\ via = 0
  /\ redirectErr = FALSE

\* the final responses explored behind a chain of redirects
RedirectResponses ==
  { [StatusCode |-> st, ContentType |-> CTHtml, ContentLength |-> -1,
     Body |-> <<"t", "w">>, ReadErr |-> FALSE] : st \in {200, 404} }

\* types.go line 154 with lines 68-73: the server answers the request number
\* via + 1 with a redirect, CheckRedirect returns nil and the redirect is followed
FollowRedirect ==
  /\ fetchPc = "do"
  /\ via < redirects
  /\ CheckRedirect(via + 1) = ErrNil
  /\ via' = via + 1
  /\ UNCHANGED <<redirects, redirectErr, fetchVars>>

\* types.go lines 154-160 with lines 68-73: CheckRedirect returns an error,
\* httpClient.Do fails with it
RefuseRedirect ==
  /\ fetchPc = "do"
  /\ via < redirects
  /\ CheckRedirect(via + 1) # ErrNil
  /\ via' = via + 1
  /\ redirectErr' = TRUE
  /\ result' = Fail(result, "doerr")
  /\ fetchPc' = "returned"
  /\ UNCHANGED <<redirects, urlStr, maxSize, resp, bytesRead, body, extractCalls>>

\* types.go line 154: the response behind the last redirect
FinalResponse(r) ==
  /\ via = redirects
  /\ Do(r)
  /\ UNCHANGED redirVars

\* ================================================================ heuristic analyzer
\* Analyzer.AnalyzeQuery (query_analyzer.go).  Strings are sequences of characters.
\* query: the argument; trigger: the SearchTrigger returned, NoTrigger before the call.
VARIABLES
  query,
  trigger

anaVars == <<query, trigger>>

\* query_analyzer.go lines 26-52: the keyword lists of NewAnalyzer
timeSensitive ==
  << <<"l", "a", "t", "e", "s", "t">>,
     <<"c", "u", "r", "r", "e", "n", "t">>,
     <<"t", "o", "d", "a", "y">>,
     <<"n", "o", "w">>,
     <<"r", "e", "c", "e", "n", "t">>,
     <<"2", "0", "2", "4">>,
     <<"2", "0", "2", "5">>,
     <<"t", "h", "i", "s", " ", "y", "e", "a", "r">>,
     <<"t", "h", "i", "s", " ", "m", "o", "n", "t", "h">>,
     <<"t", "h", "i", "s", " ", "w", "e", "e", "k">>,
     <<"b", "r", "e", "a", "k", "i", "n", "g">>,
     <<"n", "e", "w", "s">>,
     <<"u", "p", "d", "a", "t", "e", "d">>,
     <<"n", "e", "w">>,
     <<"y", "e", "s", "t", "e", "r", "d", "a", "y">>,
     <<"l", "i", "v", "e">>,
     <<"o", "n", "g", "o", "i", "n", "g">>,
     <<"h", "a", "p", "p", "e", "n", "i", "n", "g">> >>

factualQueries ==
  << <<"w", "h", "a", "t", " ", "i", "s">>,
     <<"w", "h", "a", "t", " ", "a", "r", "e">>,
     <<"w", "h", "o", " ", "i", "s">>,
     <<"w", "h", "o", " ", "a", "r", "e">>,
     <<"w", "h", "e", "n", " ", "d", "i", "d">>,
     <<"w", "h", "e", "n", " ", "w", "a", "s">>,
     <<"w", "h", "e", "r", "e", " ", "i", "s">>,
     <<"w", "h", "e", "r", "e", " ", "a", "r", "e">>,
     <<"h", "o", "w", " ", "m", "a", "n", "y">>,
     <<"h", "o", "w", " ", "m", "u", "c", "h">>,
     <<"w", "h", "i", "c", "h">>,
     <<"p", "r", "i", "c", "e", " ", "o", "f">>,
     <<"c", "o", "s", "t", " ", "o", "f">>,
     <<"w", "e", "a", "t", "h", "e", "r">>,
     <<"s", "t", "o", "c", "k">>,
     <<"s", "c", "o", "r", "e">>,
     <<"r", "e", "s", "u", "l", "t">> >>

researchQueries ==
  << <<"c", "o", "m", "p", "a", "r", "e">>,
     <<"c", "o", "m", "p", "a", "r", "i", "s", "o", "n">>,
     <<"b", "e", "s", "t">>,
     <<"t", "o", "p">>,
     <<"r", "e", "v", "i", "e", "w">>,
     <<"r", "e", "v", "i", "e", "w", "s">>,
     <<"v", "s">>,
     <<"v", "e", "r", "s", "u", "s">>,
     <<"d", "i", "f", "f", "e", "r", "e", "n", "c", "e", " ", "b", "e", "t", "w", "e", "e", "n">>,
     <<"p", "r", "o", "s", " ", "a", "n", "d", " ", "c", "o", "n", "s">>,
     <<"a", "l", "t", "e", "r", "n", "a", "t", "i", "v", "e", "s">>,
     <<"o", "p", "t", "i", "o", "n", "s">>,
     <<"r", "e", "c", "o", "m", "m", "e", "n", "d">> >>

explanationQueries ==
  << <<"e", "x", "p", "l", "a", "i", "n">>,
     <<"h", "o", "w", " ", "d", "o", "e", "s">>,
     <<"h", "o", "w", " ", "d", "o">>,
     <<"w", "h", "y", " ", "d", "o", "e", "s">>,
     <<"w", "h", "y", " ", "d", "o">>,
     <<"c", "o", "n", "c", "e", "p", "t", " ", "o", "f">>,
     <<"t", "e", "a", "c", "h", " ", "m", "e">>,
     <<"t", "u", "t", "o", "r", "i", "a", "l">>,
     <<"g", "u", "i", "d", "e">>,
     <<"u", "n", "d", "e", "r", "s", "t", "a", "n", "d", "i", "n", "g">>,
     <<"l", "e", "a", "r", "n">> >>

codeQueries ==
  << <<"c", "o", "d", "e">>,
     <<"f", "u", "n", "c", "t", "i", "o", "n">>,
     <<"a", "l", "g", "o", "r", "i", "t", "h", "m">>,
     <<"i", "m", "p", "l", "e", "m", "e", "n", "t">>,
     <<"d", "e", "b", "u", "g">>,
     <<"e", "r", "r", "o", "r">>,
     <<"s", "y", "n", "t", "a", "x">>,
     <<"p", "r", "o", "g", "r", "a", "m">>,
     <<"v", "a", "r", "i", "a", "b", "l", "e">>,
     <<"c", "l", "a", "s", "s">>,
     <<"m", "e", "t", "h", "o", "d">>,
     <<"a", "p", "i">> >>

\* the words queries are made of: keywords of every category, words of no
\* category, upper-case letters and a word that holds a keyword inside it
Vocabulary ==
  << <<"w", "h", "a", "t", " ", "i", "s">>,
     <<"t", "h", "e">>,
     <<"l", "a", "t", "e", "s", "t">>,
     <<"A", "I">>,
     <<"n", "e", "w", "s">>,
     <<"t", "o", "d", "a", "y">>,
     <<"b", "e", "s", "t">>,
     <<"e", "x", "p", "l", "a", "i", "n">>,
     <<"R", "A", "P", "I", "D">> >>

ExampleNewsToday == <<"w", "h", "a", "t", " ", "i", "s", " ", "t", "h", "e", " ", "l", "a", "t", "e", "s", "t", " ", "n", "e", "w", "s", " ", "t", "o", "d", "a", "y">>

ExampleLatestAINews == <<"l", "a", "t", "e", "s", "t", " ", "A", "I", " ", "n", "e", "w", "s">>

\* the words of Vocabulary with an index in S, in order, joined by single spaces
RECURSIVE JoinFrom(_, _)
JoinFrom(S, i) ==
  IF i > Len(Vocabulary) THEN <<>>
  ELSE LET rest == JoinFrom(S, i + 1)
       IN IF i \notin S THEN rest
          ELSE IF rest = <<>> THEN Vocabulary[i]
          ELSE Vocabulary[i] \o <<" ">> \o rest

\* the queries explored: up to MaxWords words, bare or inside white space
Queries ==
  LET bodies == { JoinFrom(S, 1) : S \in { T \in SUBSET (1..Len(Vocabulary)) : Cardinality(T) <= MaxWords } }
  IN bodies \cup { <<" ", "\t">> \o b \o <<"\t", " ">> : b \in bodies }

IsSpace(c) == c \in {" ", "\t", "\n", "\r"}

\* strings.TrimSpace
RECURSIVE TrimSpace(_)
TrimSpace(s) ==
  IF s = <<>> THEN s
  ELSE IF IsSpace(s[1]) THEN TrimSpace(Tail(s))
  ELSE IF IsSpace(s[Len(s)]) THEN TrimSpace(SubSeq(s, 1, Len(s) - 1))
  ELSE s

\* query_analyzer.go lines 117-125
RECURSIVE countMatches(_, _)
countMatches(q, patterns) ==
  IF patterns = <<>> THEN 0
  ELSE (IF Contains(q, Head(patterns)) THEN 1 ELSE 0) + countMatches(q, Tail(patterns))

\* a category that scores once per keyword found
CategoryScore_perKeyword(count, points) == count * points

\* query_analyzer.go lines 72-99: if count > 0 { score += points }
CategoryScore(count, points) == IF count > 0 THEN points ELSE 0

\* a threshold that the score 40 reaches
Threshold_inclusive(score) == score >= 40

\* query_analyzer.go line 102: needsSearch := score > 40
Threshold(score) == score > 40

NoTrigger == [NeedsSearch |-> FALSE, Confidence |-> 0, Reason |-> <<"not analyzed">>]

\* query_analyzer.go lines 104-107: the reason is the list of the categories found
Reasons(q) ==
  (IF countMatches(q, timeSensitive) > 0 THEN <<"time-sensitive">> ELSE <<>>)
  \o (IF countMatches(q, factualQueries) > 0 THEN <<"factual">> ELSE <<>>)
  \o (IF countMatches(q, researchQueries) > 0 THEN <<"research">> ELSE <<>>)
  \o (IF countMatches(q, explanationQueries) > 0 THEN <<"explanation (LLM better)">> ELSE <<>>)
  \o (IF countMatches(q, codeQueries) > 0 THEN <<"code (LLM better)">> ELSE <<>>)

\* query_analyzer.go lines 57-114
AnalyzeQuery(input) ==
  LET q == ToLower(TrimSpace(input))
      score == CategoryScore(countMatches(q, timeSensitive), 40)
               + CategoryScore(countMatches(q, factualQueries), 30)
               + CategoryScore(countMatches(q, researchQueries), 20)
               - CategoryScore(countMatches(q, explanationQueries), 30)
               - CategoryScore(countMatches(q, codeQueries), 40)
  IN IF q = <<>>
       THEN [NeedsSearch |-> FALSE, Confidence |-> 0, Reason |-> <<"empty query">>]
       ELSE [NeedsSearch |-> Threshold(score), Confidence |-> score,
             Reason |-> IF Reasons(q) = <<>> THEN <<"general query">> ELSE Reasons(q)]

InitAnaVars ==
  /\ query \in Queries
  /\ trigger = NoTrigger

IdleAnaVars ==
  /\ query = <<>>
  /\ trigger = AnalyzeQuery(<<>>)

\* one call of AnalyzeQuery
CallAnalyzeQuery ==
  /\ trigger = NoTrigger
  /\ trigger' = AnalyzeQuery(query)
  /\ UNCHANGED query

\* ================================================================ search client
\* Client.Search (part_001 lines 33-85), one step per early return.
\* searchPc: the position in Search; maxResults: its argument; httpResp: the
\* response of the service; searchRet: the (results, error) pair returned.
VARIABLES
  searchPc,
  maxResults,
  httpResp,
  searchRet

clientVars == <<searchPc, maxResults, httpResp, searchRet>>

\* the results of a response: the position in the body names the result
Scores == 0..2

ResultLists ==
  UNION { { [i \in 1..n |-> [ID |-> i, Score |-> f[i]]] : f \in [1..n -> Scores] } : n \in 0..MaxHits }

\* a body json.Decoder cannot decode into a SearchResponse
MalformedBody == [Decodes |-> FALSE, Results |-> <<>>]

SearchBodies == { MalformedBody } \cup { [Decodes |-> TRUE, Results |-> l] : l \in ResultLists }

SearchStatusCodes == {200, 201, 403, 404, 500}

SearchHTTPResponses == [StatusCode : SearchStatusCodes, Body : SearchBodies]

NoHTTPResponse == [StatusCode |-> 0, Body |-> MalformedBody]

\* the errors of Search; NoError is the nil error
NoError == [kind |-> "nil", status |-> 0]
ErrCreateRequest == [kind |-> "failed to create request", status |-> 0]
ErrSearchRequest == [kind |-> "search request failed", status |-> 0]
ErrForbidden == [kind |-> "SearXNG returned 403 Forbidden. JSON API may not be enabled", status |-> 403]
ErrSearchStatus(code) == [kind |-> "SearXNG returned status", status |-> code]
ErrSearchParse == [kind |-> "failed to parse search response", status |-> 0]

\* a nil slice of results
NilResults == [nil |-> TRUE, list |-> <<>>]
SomeResults(l) == [nil |-> FALSE, list |-> l]

NoReturn == [Results |-> NilResults, Err |-> [kind |-> "not returned", status |-> 0]]

\* a status check that lets every response through
StatusError_none(code) == NoError

\* part_001 lines 60-66
StatusError(code) ==
  IF code = 403 THEN ErrForbidden
  ELSE IF code # 200 THEN ErrSearchStatus(code)
  ELSE NoError

Orders(n) == { f \in [1..n -> 1..n] : \A i, j \in 1..n : f[i] = f[j] => i = j }

\* every order is left as it is
SortedOrders_unsorted(l) == Orders(Len(l))

\* part_001 lines 75-77: sort.Slice with less(i, j) = Score[i] > Score[j]; the
\* sort is not stable, any order with non-increasing scores can come out
SortedOrders(l) ==
  { f \in Orders(Len(l)) : \A i, j \in 1..Len(l) : i < j => l[f[i]].Score >= l[f[j]].Score }

\* part_001 lines 80-84
TopN(l, n) == IF Len(l) > n THEN SubSeq(l, 1, n) ELSE l

InitClientVars ==
  /\ searchPc = "request"
  /\ maxResults \in 1..MaxHits
  /\ httpResp = NoHTTPResponse
  /\ searchRet = NoReturn

IdleClientVars ==
  /\ searchPc = "returned"
  /\ maxResults = 1
  /\ httpResp = NoHTTPResponse
  /\ searchRet = [Results |-> NilResults, Err |-> ErrSearchRequest]

\* part_001 lines 43-46: http.NewRequestWithContext fails
SearchNewRequestFails ==
  /\ searchPc = "request"
  /\ searchRet' = [Results |-> NilResults, Err |-> ErrCreateRequest]
  /\ searchPc' = "returned"
  /\ UNCHANGED <<maxResults, httpResp>>

\* part_001 lines 53-56: httpClient.Do fails
SearchDoFails ==
  /\ searchPc = "request"
  /\ searchRet' = [Results |-> NilResults, Err |-> ErrSearchRequest]
  /\ searchPc' = "returned"
  /\ UNCHANGED <<maxResults, httpResp>>

\* part_001 line 53: httpClient.Do returns a response
SearchDo(r) ==
  /\ searchPc = "request"
  /\ httpResp' = r
  /\ searchPc' = "status"
  /\ UNCHANGED <<maxResults, searchRet>>

\* part_001 lines 60-66
SearchCheckStatus ==
  /\ searchPc = "status"
  /\ IF StatusError(httpResp.StatusCode) # NoError
       THEN /\ searchRet' = [Results |-> NilResults, Err |-> StatusError(httpResp.StatusCode)]
            /\ searchPc' = "returned"
       ELSE /\ searchPc' = "decode"
            /\ UNCHANGED searchRet
  /\ UNCHANGED <<maxResults, httpResp>>

\* part_001 lines 69-72: the body does not decode
SearchDecodeFails ==
  /\ searchPc = "decode"
  /\ ~httpResp.Body.Decodes
  /\ searchRet' = [Results |-> NilResults, Err |-> ErrSearchParse]
  /\ searchPc' = "returned"
  /\ UNCHANGED <<maxResults, httpResp>>

\* part_001 lines 69-84: the body decodes, the results are sorted and the
\* first maxResults of them returned
SearchSortAndReturn(order) ==
  /\ searchPc = "decode"
  /\ httpResp.Body.Decodes
  /\ order \in SortedOrders(httpResp.Body.Results)
  /\ searchRet' = [Results |-> SomeResults(TopN([i \in 1..Len(httpResp.Body.Results) |->
                                                    httpResp.Body.Results[order[i]]], maxResults)),
                   Err |-> NoError]
  /\ searchPc' = "returned"
  /\ UNCHANGED <<maxResults, httpResp>>

\* ================================================================ text truncation
\* The end of ExtractText (extractor.go lines 25-31): cleanText and truncateWords.
\* A text is a sequence of tokens: a positive number is a word, Space one blank,
\* Gap any other run of white space, Ellipsis the three dots of the marker.
\* bodyText: what extractBodyText returned; extractedText: the text returned.
VARIABLES
  truncPc,
  bodyText,
  extractedText

truncVars == <<truncPc, bodyText, extractedText>>

Space == 0
Gap == -1
Ellipsis == -2

\* extractor.go line 29: truncateWords(text, 500)
WordLimit == 500

\* the texts explored: n different words, one blank between them, or a run of
\* white space before and after each of them
RawTexts ==
  { [i \in 1..(2 * n + 1) |-> IF i % 2 = 1 THEN Gap ELSE i \div 2] : n \in 0..MaxTextWords }
  \cup { [i \in 1..(2 * n) |-> IF i % 2 = 1 THEN i \div 2 + 1 ELSE Space] : n \in 0..MaxTextWords }

\* strings.Fields
Fields(t) == SelectSeq(t, LAMBDA x : x > 0)

\* strings.Join(words, " ")
JoinWords(words) ==
  [i \in 1..(2 * Len(words) - 1) |-> IF i % 2 = 1 THEN words[(i + 1) \div 2] ELSE Space]

\* strings.TrimSpace on tokens
RECURSIVE TrimTokens(_)
TrimTokens(t) ==
  IF t = <<>> THEN t
  ELSE IF Head(t) \in {Space, Gap} THEN TrimTokens(Tail(t))
  ELSE IF t[Len(t)] \in {Space, Gap} THEN TrimTokens(SubSeq(t, 1, Len(t) - 1))
  ELSE t

\* extractor.go lines 90-98
cleanText(t) == TrimTokens(JoinWords(Fields(t)))

\* a text of exactly maxWords words is truncated as well
WithinLimit_strict(n, maxWords) == n < maxWords

\* extractor.go line 103: len(words) <= maxWords
WithinLimit(n, maxWords) == n <= maxWords

\* extractor.go lines 101-108
truncateWords(t, maxWords) ==
  IF WithinLimit(Len(Fields(t)), maxWords) THEN t
  ELSE JoinWords(SubSeq(Fields(t), 1, maxWords)) \o <<Ellipsis>>

InitTruncVars ==
  /\ truncPc = "clean"
  /\ bodyText \in RawTexts
  /\ extractedText = <<>>

IdleTruncVars ==
  /\ truncPc = "returned"
  /\ bodyText = <<>>
  /\ extractedText = <<>>

\* extractor.go lines 25-31: the text is cleaned, truncated and returned
CleanAndTruncate ==
  /\ truncPc = "clean"
  /\ extractedText' = truncateWords(cleanText(bodyText), WordLimit)
  /\ truncPc' = "returned"
  /\ UNCHANGED bodyText

\* ================================================================ text extractor
\* extractTitle, extractBodyText and getNodeText (extractor.go lines 34-87) on
\* the node tree html.Parse returns.  doc lists the nodes below the document
\* node in document order, each with its depth; the text node at position i
\* carries the word i.  extracted: the (title, text) pair ExtractText returns.
VARIABLES
  docPc,
  doc,
  extracted

docVars == <<docPc, doc, extracted>>

\* extractor.go line 54
SkipTags == {"script", "style", "nav", "footer", "header", "aside"}

\* elements that are kept
ContentTags == {"p", "title"}

ElementNode(d, tag) == [Depth |-> d, Type |-> "element", Tag |-> tag, Text |-> 0]
TextNode(d, i) == [Depth |-> d, Type |-> "text", Tag |-> "", Text |-> i]

\* the depths of n nodes in document order: the first is a child of the
\* document node, each next one a child, a sibling or a sibling of an ancestor
Shapes(n) ==
  { f \in [1..n -> 1..n] : /\ n > 0 => f[1] = 1
                            /\ \A i \in 1..(n - 1) : f[i + 1] <= f[i] + 1 }

\* the kinds of the nodes of a tree of the shape f: elements with a content
\* tag or the tag skip, and text nodes, which are leaves
KindsOf(n, f, skip) ==
  { g \in [1..n -> ContentTags \cup {skip, "text"}] :
      \A i \in 1..(n - 1) : g[i] = "text" => f[i + 1] <= f[i] }

Tree(n, f, k) ==
  [i \in 1..n |-> IF k[i] = "text" THEN TextNode(f[i], i) ELSE ElementNode(f[i], k[i])]

\* the document node is the position 0
DepthOf(d, i) == IF i = 0 THEN 0 ELSE d[i].Depth
TypeOf(d, i) == IF i = 0 THEN "document" ELSE d[i].Type

\* n.FirstChild, c.NextSibling: the children of the node i, in order
ChildrenOf(d, i) ==
  SelectSeq([j \in 1..Len(d) |-> j],
            LAMBDA j : /\ j > i
                       /\ d[j].Depth = DepthOf(d, i) + 1
                       /\ \A k \in (i + 1)..j : d[k].Depth > DepthOf(d, i))

\* the skip test at the top of the tree only
Skipped_topLevel(d, i) ==
  TypeOf(d, i) = "element" /\ d[i].Tag \in SkipTags /\ d[i].Depth = 1

\* extractor.go lines 52-57
SkippedElement(d, i) ==
  TypeOf(d, i) = "element" /\ d[i].Tag \in SkipTags

RECURSIVE extractBodyText(_, _), bodyTextOfAll(_, _)
\* extractor.go lines 50-73
extractBodyText(d, i) ==
  IF SkippedElement(d, i) THEN <<>>
  ELSE (IF TypeOf(d, i) = "text" THEN <<d[i].Text, Space>> ELSE <<>>)
       \o bodyTextOfAll(d, ChildrenOf(d, i))

\* extractor.go lines 68-70
bodyTextOfAll(d, cs) ==
  IF cs = <<>> THEN <<>>
  ELSE extractBodyText(d, Head(cs)) \o bodyTextOfAll(d, Tail(cs))

RECURSIVE getNodeText(_, _), nodeTextOfAll(_, _)
\* extractor.go lines 76-87
getNodeText(d, i) ==
  IF TypeOf(d, i) = "text" THEN <<d[i].Text>>
  ELSE nodeTextOfAll(d, ChildrenOf(d, i))

\* extractor.go lines 82-84
nodeTextOfAll(d, cs) ==
  IF cs = <<>> THEN <<>>
  ELSE getNodeText(d, Head(cs)) \o nodeTextOfAll(d, Tail(cs))

RECURSIVE extractTitle(_, _), titleOfFirst(_, _)
\* extractor.go lines 35-47
extractTitle(d, i) ==
  IF TypeOf(d, i) = "element" /\ d[i].Tag = "title" THEN getNodeText(d, i)
  ELSE titleOfFirst(d, ChildrenOf(d, i))

\* extractor.go lines 40-44: the first child whose title is not the empty string
titleOfFirst(d, cs) ==
  IF cs = <<>> THEN <<>>
  ELSE IF extractTitle(d, Head(cs)) # <<>> THEN extractTitle(d, Head(cs))
  ELSE titleOfFirst(d, Tail(cs))

NotExtracted == [title |-> <<>>, text |-> <<Ellipsis>>]

InitDocVars ==
  /\ docPc = "parsed"
  /\ \E n \in 0..MaxNodes : \E f \in Shapes(n) : \E skip \in SkipTags :
       \E k \in KindsOf(n, f, skip) : doc = Tree(n, f, k)
  /\ extracted = NotExtracted

IdleDocVars ==
  /\ docPc = "returned"
  /\ doc = <<>>
  /\ extracted = [title |-> <<>>, text |-> <<>>]

\* extractor.go lines 19-31: ExtractText after html.Parse
ExtractDocument ==
  /\ docPc = "parsed"
  /\ extracted' = [title |-> extractTitle(doc, 0),
                   text |-> truncateWords(cleanText(extractBodyText(doc, 0)), WordLimit)]
  /\ docPc' = "returned"
  /\ UNCHANGED doc

\* ================================================================ decision reply
\* The parsing of the reply in AnalyzeWithLLM (llm_analyzer.go lines 77-93).
\* A response is a sequence of characters; Tick stands for one backquote and a
\* JSON text is one character of JSONTexts.  enclosed: the JSON text of the
\* reply; response: the reply ChatSync returned; parsed: what AnalyzeWithLLM
\* returns for it.
VARIABLES
  parsePc,
  enclosed,
  response,
  parsed

fenceVars == <<parsePc, enclosed, response, parsed>>

Tick == "tick"

Fence == <<Tick, Tick, Tick>>

FenceJson == <<Tick, Tick, Tick, "j", "s", "o", "n">>

\* the language tags of an opening fence: none, json, and two others
FenceTags == { <<>>, <<"j", "s", "o", "n">>, <<"J", "S", "O", "N">>, <<"j", "s">> }

\* JSON texts of decisions, and a text that is not JSON
JSONTexts == {"{needs_search:false}", "{needs_search:true}", "{needs_search:true,search_queries:[q1]}",
              "{needs_search:true,search_queries:[q1,q2]}"}

ReplyTexts == JSONTexts \cup {"I think a search is needed"}

\* the decision a JSON text spells
DecisionOf(text) ==
  CASE text = "{needs_search:false}" -> [NeedsSearch |-> FALSE, SearchQueries |-> 0]
    [] text = "{needs_search:true}" -> [NeedsSearch |-> TRUE, SearchQueries |-> 0]
    [] text = "{needs_search:true,search_queries:[q1]}" -> [NeedsSearch |-> TRUE, SearchQueries |-> 1]
    [] text = "{needs_search:true,search_queries:[q1,q2]}" -> [NeedsSearch |-> TRUE, SearchQueries |-> 2]

\* white space around a reply
Margins == { <<>>, <<" ", "\n">> }

\* the reply text inside a fence with the language tag tag, white space around it
Fenced(text, tag, before, after) ==
  before \o Fence \o tag \o <<"\n", text, "\n">> \o Fence \o after

\* the replies explored: bare, and fenced with every tag
LLMResponses(text) ==
  { before \o <<text>> \o after : before \in Margins, after \in Margins }
  \cup { Fenced(text, tag, before, after) : tag \in FenceTags, before \in Margins, after \in Margins }

HasPrefix(str, prefix) ==
  Len(str) >= Len(prefix) /\ SubSeq(str, 1, Len(prefix)) = prefix

HasSuffix(str, suffix) ==
  Len(str) >= Len(suffix) /\ SubSeq(str, Len(str) - Len(suffix) + 1, Len(str)) = suffix

TrimPrefix(str, prefix) ==
  IF HasPrefix(str, prefix) THEN SubSeq(str, Len(prefix) + 1, Len(str)) ELSE str

TrimSuffix(str, suffix) ==
  IF HasSuffix(str, suffix) THEN SubSeq(str, 1, Len(str) - Len(suffix)) ELSE str

\* llm_analyzer.go lines 78-87
CleanResponse(str) ==
  LET r == TrimSpace(str)
  IN IF HasPrefix(r, FenceJson) THEN TrimSpace(TrimSuffix(TrimPrefix(r, FenceJson), Fence))
     ELSE IF HasPrefix(r, Fence) THEN TrimSpace(TrimSuffix(TrimPrefix(r, Fence), Fence))
     ELSE r

\* llm_analyzer.go line 89: json.Unmarshal accepts one JSON text with white
\* space around it
UnmarshalResponse(str) ==
  IF Len(TrimSpace(str)) = 1 /\ TrimSpace(str)[1] \in JSONTexts
    THEN [err |-> FALSE, decision |-> DecisionOf(TrimSpace(str)[1])]
    ELSE [err |-> TRUE, decision |-> ZeroDecision]

\* llm_analyzer.go lines 74-93
ParseResponse(str) ==
  IF UnmarshalResponse(CleanResponse(str)).err
    THEN [decision |-> ZeroDecision, err |-> ErrParse]
    ELSE [decision |-> UnmarshalResponse(CleanResponse(str)).decision, err |-> ErrNil]

NotParsed == [decision |-> ZeroDecision, err |-> "not parsed"]

InitFenceVars ==
  /\ parsePc = "reply"
  /\ enclosed \in ReplyTexts
  /\ response \in LLMResponses(enclosed)
  /\ parsed = NotParsed

IdleFenceVars ==
  /\ parsePc = "returned"
  /\ enclosed = ""
  /\ response = <<>>
  /\ parsed = [decision |-> ZeroDecision, err |-> ErrParse]

\* llm_analyzer.go lines 74-93: the reply is cleaned and parsed
ParseReply ==
  /\ parsePc = "reply"
  /\ parsed' = ParseResponse(response)
  /\ parsePc' = "returned"
  /\ UNCHANGED <<enclosed, response>>

\* ================================================================ conversation
\* The data of the conversation loop (main.go lines 589-785): the query, the
\* request built for it and the session of the history manager.
VARIABLES
  turnPc,        \* main: "prompt", "analyze", "search", "build", "chat"; "ended"
  session,       \* Manager.current.Messages
  currentQuery,  \* main: query
  fileContext,   \* main: fileContext
  searchRan,     \* history: performMultiSearch was called in this turn
  messages,      \* main: messages, the request handed to ChatWithCallbacks
  chatErr        \* main: err as returned by ChatWithCallbacks in this turn

convVars == <<turnPc, session, currentQuery, fileContext, searchRan, messages, chatErr>>

\* the crawl variables main does not assign in the loop
poolVars == <<maxWorkers, ctxDone, caller, pc, urls, numWorkers, spawned, sent,
              jobs, jobsClosed, results, resultsClosed, wg, worker, closer,
              crawlResults, returned, panicked, numQueries, qi, seenURLs,
              allURLs, allCrawlResults, taken, fetchCount, pendingAtCancel,
              lateJobs, dispatched, firstSeen, resultCount, searchCalls, failedAt>>

\* the queries a user enters
ConversationQueries == {"what is the latest news today", "latest AI news"}

\* the characters of a query
Spelling(q) ==
  IF q = "what is the latest news today" THEN ExampleNewsToday ELSE ExampleLatestAINews

\* a string, as the list of its pieces
Text(str) == <<ContextLine("text", 0, str)>>

\* buildFileContext: empty without file references
NoFiles == <<>>
FileContexts == {NoFiles, <<ContextLine("file", 0, "notes.txt")>>}

\* what performMultiSearch can return to main (line 714): nothing after a
\* failed or empty single search, the context of the crawl results and the
\* URLs crawled otherwise
SearchReturns ==
  {[context |-> NoContext, urls |-> <<>>],
   [context |-> buildSearchContext(<<>>), urls |-> <<>>],
   [context |-> buildSearchContext(<<crawlSingle("u1", 1, "doerr")>>), urls |-> <<"u1">>],
   [context |-> buildSearchContext(<<crawlSingle("u1", 1, "ok")>>), urls |-> <<"u1">>]}

\* the answer text ChatWithCallbacks returns
Answer == "answer"

\* ollama.Message
Message(role, content) == [Role |-> role, Content |-> content]

\* Message.Metadata == nil
NoMetadata == [SearchPerformed |-> FALSE, SourceURLs |-> <<>>]

\* history.Message, the timestamp left out
HistoryMessage(role, content, metadata) ==
  [Role |-> role, Content |-> content, Metadata |-> metadata]

\* main.go line 1023: the number of saved messages sent along
HistoryLimit == 10

GetRecentMessages_all(msgs, limit) == msgs

\* manager.go lines 114-128
GetRecentMessages(msgs, limit) ==
  IF Len(msgs) <= limit THEN msgs
  ELSE SubSeq(msgs, Len(msgs) - limit + 1, Len(msgs))

\* main.go line 997: the sentence that announces web information
WebNotice == " You have access to current web information to answer questions accurately. Cite sources when referencing specific information."

\* main.go line 1018: the reply that follows the context block
ContextAck == "I've reviewed the web search results and I'm ready to answer your question based on this information."

\* main.go lines 995-1001
SystemPrompt(context, files) ==
  Text("You are a helpful AI assistant.")
    \o (IF context # NoContext THEN Text(WebNotice) ELSE <<>>)
    \o (IF files # NoFiles
          THEN Text(" The user has provided file contents that you MUST read and analyze carefully.")
          ELSE <<>>)

\* main.go lines 1011-1020
ContextPair(context) ==
  IF context # NoContext
    THEN <<Message("user", context), Message("assistant", Text(ContextAck))>>
    ELSE <<>>

\* main.go lines 1032-1037
FinalQuery(q, files) ==
  IF files # NoFiles THEN files \o Text("\n\n") \o Text(q) ELSE Text(q)

\* main.go lines 991-1045
buildMessages(msgs, q, context, files) ==
  <<Message("system", SystemPrompt(context, files))>>
    \o ContextPair(context)
    \o [i \in 1..Len(GetRecentMessages(msgs, HistoryLimit)) |->
          Message(GetRecentMessages(msgs, HistoryLimit)[i].Role,
                  GetRecentMessages(msgs, HistoryLimit)[i].Content)]
    \o <<Message("user", FinalQuery(q, files))>>

\* the session after the exchanges with the given queries were saved
SessionOf(qs) ==
  [i \in 1..(2 * Len(qs)) |->
     IF i % 2 = 1 THEN HistoryMessage("user", Text(qs[(i + 1) \div 2]), NoMetadata)
     ELSE HistoryMessage("assistant", Text(Answer), NoMetadata)]

InitConvVars ==
  /\ turnPc = "prompt"
  /\ session = <<>>
  /\ currentQuery = ""
  /\ fileContext = NoFiles
  /\ searchRan = FALSE
  /\ messages = <<>>
  /\ chatErr = ErrNil

IdleConvVars ==
  /\ turnPc = "ended"
  /\ session = <<>>
  /\ currentQuery = ""
  /\ fileContext = NoFiles
  /\ searchRan = FALSE
  /\ messages = <<>>
  /\ chatErr = ErrNil

\* main.go lines 590-686: the prompt, the commands, the empty query, and the
\* start of a turn
ReadQuery(input, q, files) ==
  /\ turnPc = "prompt"
  /\ CASE input \in {"eof", "exit"} ->
            /\ turnPc' = "ended"
            /\ UNCHANGED <<currentQuery, fileContext, searchRan, messages, chatErr,
                           searchContext, sourceURLs>>
       [] input \in {"command", "empty"} ->
            UNCHANGED <<turnPc, currentQuery, fileContext, searchRan, messages,
                        chatErr, searchContext, sourceURLs>>
       [] input = "query" ->
            /\ Len(session) < 2 * MaxExchanges
            /\ currentQuery' = q
            /\ fileContext' = files
            /\ searchContext' = NoContext
            /\ sourceURLs' = <<>>
            /\ searchRan' = FALSE
            /\ messages' = <<>>
            /\ chatErr' = ErrNil
            /\ turnPc' = IF autoSearch THEN "analyze" ELSE "build"
  /\ UNCHANGED <<session, poolVars>>

\* main.go lines 697-718: the decision call; performMultiSearch is called
\* when it returned no error and NeedsSearch
DecideSearch(reply) ==
  /\ turnPc = "analyze"
  /\ IF AnalyzeWithLLM(reply).err = ErrNil /\ AnalyzeWithLLM(reply).decision.NeedsSearch
       THEN turnPc' = "search" /\ searchRan' = TRUE
       ELSE turnPc' = "build" /\ UNCHANGED searchRan
  /\ UNCHANGED <<session, currentQuery, fileContext, messages, chatErr, crawlVars>>

\* main.go line 714: performMultiSearch returns
WebSearch(r) ==
  /\ turnPc = "search"
  /\ pc = "main"
  /\ searchContext' = r.context
  /\ sourceURLs' = r.urls
  /\ turnPc' = "build"
  /\ UNCHANGED <<session, currentQuery, fileContext, searchRan, messages, chatErr,
                 poolVars>>

\* main.go line 725, reached without a search or after performMultiSearch returned
BuildMessages ==
  /\ \/ turnPc = "build"
     \/ turnPc = "search" /\ pc = "done"
  /\ messages' = buildMessages(session, currentQuery, searchContext, fileContext)
  /\ turnPc' = "chat"
  /\ UNCHANGED <<session, currentQuery, fileContext, searchRan, chatErr, crawlVars>>

\* main.go lines 757-784: the user message, then the assistant message
SavedMessages(q, urls_) ==
  <<HistoryMessage("user", Text(q), NoMetadata),
    HistoryMessage("assistant", Text(Answer),
                   IF Len(urls_) > 0
                     THEN [SearchPerformed |-> TRUE, SourceURLs |-> urls_]
                     ELSE NoMetadata)>>

SavedOnError_query(q) == <<HistoryMessage("user", Text(q), NoMetadata)>>

\* main.go lines 749-752: PrintError, continue
SavedOnError(q) == <<>>

\* main.go lines 731-784: the streaming chat and what is saved after it
StreamReply(err) ==
  /\ turnPc = "chat"
  /\ session' = IF err # ErrNil THEN session \o SavedOnError(currentQuery)
                ELSE session \o SavedMessages(currentQuery, sourceURLs)
  /\ chatErr' = err
  /\ turnPc' = "prompt"
  /\ UNCHANGED <<currentQuery, fileContext, searchRan, messages, crawlVars>>

\* ================================================================ specifications
libVars == <<redirVars, anaVars, clientVars, truncVars, docVars, fenceVars,
            contextVars>>

IdleLibVars ==
  /\ IdleRedirVars
  /\ IdleAnaVars
  /\ IdleClientVars
  /\ IdleTruncVars
  /\ IdleDocVars
  /\ IdleFenceVars
  /\ IdleContextVars

progVars == <<crawlVars, streamVars, mainVars, fetchVars>>

vars == <<progVars, libVars, convVars>>

InitCrawl ==
  /\ InitCrawlVars
  /\ IdleStreamVars
  /\ IdleMainVars
  /\ IdleFetchVars
  /\ IdleLibVars
  /\ IdleConvVars

\* the fetch outcomes explored for the URLs of a batch: transport failure
\* (timeout, cancellation), HTTP error, failed body read, success
FetchOutcomes == {"doerr", "status", "readerr", "ok"}

\* one CrawlURLs call by any caller: its goroutines and the cancellation of its context
NextCrawl ==
  \/ \E list \in SeqsUpTo(URLs, MaxURLs) : CallCrawlURLs(list) /\ UNCHANGED <<streamVars, mainVars, fetchVars, libVars, convVars>>
  \/ StartWorker /\ UNCHANGED <<streamVars, mainVars, fetchVars, libVars, convVars>>
  \/ SendJob /\ UNCHANGED <<streamVars, mainVars, fetchVars, libVars, convVars>>
  \/ CloseJobs /\ UNCHANGED <<streamVars, mainVars, fetchVars, libVars, convVars>>
  \/ \E w \in Workers : TakeJob(w) /\ UNCHANGED <<streamVars, mainVars, fetchVars, libVars, convVars>>
  \/ \E w \in Workers : \E o \in FetchOutcomes : DoReturns(w, o) /\ UNCHANGED <<streamVars, mainVars, fetchVars, libVars, convVars>>
  \/ \E w \in Workers : \E o \in FetchOutcomes : BodyReturns(w, o) /\ UNCHANGED <<streamVars, mainVars, fetchVars, libVars, convVars>>
  \/ \E w \in Workers : WorkerExit(w) /\ UNCHANGED <<streamVars, mainVars, fetchVars, libVars, convVars>>
  \/ CloseResults /\ UNCHANGED <<streamVars, mainVars, fetchVars, libVars, convVars>>
  \/ Collect /\ UNCHANGED <<streamVars, mainVars, fetchVars, libVars, convVars>>
  \/ ReturnCrawlURLs /\ UNCHANGED <<streamVars, mainVars, fetchVars, libVars, convVars>>
  \/ Cancel /\ UNCHANGED <<streamVars, mainVars, fetchVars, libVars, convVars>>

SpecCrawl == InitCrawl /\ [][NextCrawl]_vars

\* one CrawlURLs call whose context is cancelled before the call or never;
\* a fetch fails in Do or gives a page
FairOutcomes == {"doerr", "ok"}

\* the steps of the goroutine that called CrawlURLs
CallerGoroutine ==
  /\ StartWorker \/ SendJob \/ CloseJobs \/ Collect \/ ReturnCrawlURLs
  /\ UNCHANGED <<streamVars, mainVars, fetchVars, libVars, convVars>>

\* the steps of one worker goroutine; a fetch in flight returns
WorkerGoroutine(w) ==
  /\ \/ TakeJob(w)
     \/ \E o \in FairOutcomes : DoReturns(w, o)
     \/ \E o \in FairOutcomes : BodyReturns(w, o)
     \/ WorkerExit(w)
  /\ UNCHANGED <<streamVars, mainVars, fetchVars, libVars, convVars>>

\* the step of the goroutine that closes the result queue
ClosingGoroutine ==
  /\ CloseResults
  /\ UNCHANGED <<streamVars, mainVars, fetchVars, libVars, convVars>>

\* while some goroutine of the call can take a step, one of them does: the
\* Go scheduler runs every runnable goroutine, which is more than this, and
\* the timeout of the http client bounds every fetch; nothing obliges a
\* caller to call CrawlURLs or to cancel the context
FairCrawl ==
  WF_vars(CallerGoroutine \/ ClosingGoroutine \/ \E w \in Workers : WorkerGoroutine(w))

InitCrawlFair ==
  /\ maxWorkers \in 1..MaxPool
  /\ ctxDone \in BOOLEAN
  /\ caller = "none"
  /\ pc = "main"
  /\ urls = <<>>
  /\ numWorkers = 0
  /\ spawned = 0
  /\ sent = 0
  /\ jobs = <<>>
  /\ jobsClosed = FALSE
  /\ results = <<>>
  /\ resultsClosed = FALSE
  /\ wg = 0
  /\ worker = [w \in Workers |-> IdleWorker]
  /\ closer = "none"
  /\ crawlResults = <<>>
  /\ returned = <<>>
  /\ panicked = FALSE
  /\ numQueries = 0
  /\ qi = 0
  /\ seenURLs = {}
  /\ allURLs = <<>>
  /\ allCrawlResults = <<>>
  /\ sourceURLs = <<>>
  /\ searchContext = <<>>
  /\ taken = 0
  /\ fetchCount = [u \in URLs |-> 0]
  /\ pendingAtCancel = {}
  /\ lateJobs = {}
  /\ dispatched = <<>>
  /\ firstSeen = <<>>
  /\ resultCount = 0
  /\ searchCalls = 0
  /\ failedAt = {}
  /\ IdleStreamVars
  /\ IdleMainVars
  /\ IdleFetchVars
  /\ IdleLibVars
  /\ IdleConvVars

NextCrawlFair ==
  \/ \E list \in SeqsUpTo(URLs, MaxURLs) : CallCrawlURLs(list) /\ UNCHANGED <<streamVars, mainVars, fetchVars, libVars, convVars>>
  \/ StartWorker /\ UNCHANGED <<streamVars, mainVars, fetchVars, libVars, convVars>>
  \/ SendJob /\ UNCHANGED <<streamVars, mainVars, fetchVars, libVars, convVars>>
  \/ CloseJobs /\ UNCHANGED <<streamVars, mainVars, fetchVars, libVars, convVars>>
  \/ \E w \in Workers : TakeJob(w) /\ UNCHANGED <<streamVars, mainVars, fetchVars, libVars, convVars>>
  \/ \E w \in Workers : \E o \in FairOutcomes : DoReturns(w, o) /\ UNCHANGED <<streamVars, mainVars, fetchVars, libVars, convVars>>
  \/ \E w \in Workers : \E o \in FairOutcomes : BodyReturns(w, o) /\ UNCHANGED <<streamVars, mainVars, fetchVars, libVars, convVars>>
  \/ \E w \in Workers : WorkerExit(w) /\ UNCHANGED <<streamVars, mainVars, fetchVars, libVars, convVars>>
  \/ CloseResults /\ UNCHANGED <<streamVars, mainVars, fetchVars, libVars, convVars>>
  \/ Collect /\ UNCHANGED <<streamVars, mainVars, fetchVars, libVars, convVars>>
  \/ ReturnCrawlURLs /\ UNCHANGED <<streamVars, mainVars, fetchVars, libVars, convVars>>

SpecCrawlFair == InitCrawlFair /\ [][NextCrawlFair]_vars /\ FairCrawl

\* main has decided to search (line 714) in the first turn of a session
InitSearch ==
  /\ InitCrawlVars
  /\ IdleStreamVars
  /\ IdleMainVars
  /\ IdleFetchVars
  /\ IdleLibVars
  /\ turnPc = "search"
  /\ session = <<>>
  /\ currentQuery = "latest AI news"
  /\ fileContext = NoFiles
  /\ searchRan = TRUE
  /\ messages = <<>>
  /\ chatErr = ErrNil

\* one turn of main with auto-search: performMultiSearch, the batches it
\* starts, and the chat request that follows
NextSearch ==
  \/ \E n \in 1..MaxQueries : performMultiSearch(n) /\ UNCHANGED <<streamVars, mainVars, fetchVars, libVars, convVars>>
  \/ \E sr \in SearchResponses(ctxDone) : performSearch(sr) /\ UNCHANGED <<streamVars, mainVars, fetchVars, libVars, convVars>>
  \/ \E sr \in SearchResponses(ctxDone) : SearchQuery(sr) /\ UNCHANGED <<streamVars, mainVars, fetchVars, libVars, convVars>>
  \/ StartWorker /\ UNCHANGED <<streamVars, mainVars, fetchVars, libVars, convVars>>
  \/ SendJob /\ UNCHANGED <<streamVars, mainVars, fetchVars, libVars, convVars>>
  \/ CloseJobs /\ UNCHANGED <<streamVars, mainVars, fetchVars, libVars, convVars>>
  \/ \E w \in Workers : TakeJob(w) /\ UNCHANGED <<streamVars, mainVars, fetchVars, libVars, convVars>>
  \/ \E w \in Workers : \E o \in FetchOutcomes : DoReturns(w, o) /\ UNCHANGED <<streamVars, mainVars, fetchVars, libVars, convVars>>
  \/ \E w \in Workers : \E o \in FetchOutcomes : BodyReturns(w, o) /\ UNCHANGED <<streamVars, mainVars, fetchVars, libVars, convVars>>
  \/ \E w \in Workers : WorkerExit(w) /\ UNCHANGED <<streamVars, mainVars, fetchVars, libVars, convVars>>
  \/ CloseResults /\ UNCHANGED <<streamVars, mainVars, fetchVars, libVars, convVars>>
  \/ Collect /\ UNCHANGED <<streamVars, mainVars, fetchVars, libVars, convVars>>
  \/ ReturnCrawlURLs /\ UNCHANGED <<streamVars, mainVars, fetchVars, libVars, convVars>>
  \/ Cancel /\ UNCHANGED <<streamVars, mainVars, fetchVars, libVars, convVars>>
  \/ BuildMessages /\ UNCHANGED <<streamVars, mainVars, fetchVars, libVars>>
  \/ \E err \in {ErrNil, ErrStream} : StreamReply(err) /\ UNCHANGED <<streamVars, mainVars, fetchVars, libVars>>

SpecSearch == InitSearch /\ [][NextSearch]_vars

InitStream ==
  /\ InitStreamVars
  /\ InitCrawlVars
  /\ IdleMainVars
  /\ IdleFetchVars
  /\ maxWorkers = 1
  /\ IdleConvVars
  /\ IdleLibVars

NextStream ==
  \/ SkipLine /\ UNCHANGED <<crawlVars, mainVars, fetchVars, libVars, convVars>>
  \/ ProcessChunk /\ UNCHANGED <<crawlVars, mainVars, fetchVars, libVars, convVars>>
  \/ ScanEnds /\ UNCHANGED <<crawlVars, mainVars, fetchVars, libVars, convVars>>
  \/ ScanFails /\ UNCHANGED <<crawlVars, mainVars, fetchVars, libVars, convVars>>

SpecStream == InitStream /\ [][NextStream]_vars

InitFragments ==
  /\ InitCrawlVars
  /\ IdleMainVars
  /\ IdleFetchVars
  /\ maxWorkers = 1
  /\ IdleConvVars
  /\ IdleLibVars
  /\ InitTaggedStreamVars

SpecFragments == InitFragments /\ [][NextStream]_vars

InitMain ==
  /\ InitMainVars
  /\ InitCrawlVars
  /\ IdleStreamVars
  /\ IdleFetchVars
  /\ maxWorkers = 1
  /\ IdleConvVars
  /\ IdleLibVars

\* the conversation loop of main and the signal handler
NextMain ==
  \/ \E err \in {ErrNil, ErrRequest} : OllamaHealthCheck(err) /\ UNCHANGED <<crawlVars, streamVars, fetchVars, libVars, convVars>>
  \/ \E err \in {ErrNil, ErrRequest} : CheckModel(err) /\ UNCHANGED <<crawlVars, streamVars, fetchVars, libVars, convVars>>
  \/ \E o \in HealthOutcomes : SearXNGHealthCheck(o) /\ UNCHANGED <<crawlVars, streamVars, fetchVars, libVars, convVars>>
  \/ \E input \in Inputs : ReadInput(input) /\ UNCHANGED <<crawlVars, streamVars, fetchVars, libVars, convVars>>
  \/ \E reply \in Replies : Analyze(reply) /\ UNCHANGED <<crawlVars, streamVars, fetchVars, libVars, convVars>>
  \/ \E o \in SearchOutcomes(MaxQueries) : Search(o) /\ UNCHANGED <<crawlVars, streamVars, fetchVars, libVars, convVars>>
  \/ \E err \in ChatOutcomes : Chat(err) /\ UNCHANGED <<crawlVars, streamVars, fetchVars, libVars, convVars>>
  \/ Signal /\ UNCHANGED <<streamVars, fetchVars, libVars, convVars>>

SpecMain == InitMain /\ [][NextMain]_vars

InitFetch ==
  /\ InitFetchVars
  /\ InitCrawlVars
  /\ IdleStreamVars
  /\ IdleMainVars
  /\ maxWorkers = 1
  /\ IdleConvVars
  /\ IdleLibVars

\* one crawlSingle call
NextFetch ==
  \/ NewRequest /\ UNCHANGED <<crawlVars, streamVars, mainVars, libVars, convVars>>
  \/ DoFails /\ UNCHANGED <<crawlVars, streamVars, mainVars, libVars, convVars>>
  \/ \E r \in Responses : Do(r) /\ UNCHANGED <<crawlVars, streamVars, mainVars, libVars, convVars>>
  \/ CheckResponse /\ UNCHANGED <<crawlVars, streamVars, mainVars, libVars, convVars>>
  \/ \E n \in 0..MaxBody : ReadBody(n) /\ UNCHANGED <<crawlVars, streamVars, mainVars, libVars, convVars>>
  \/ \E parseErr \in BOOLEAN : Extract(parseErr) /\ UNCHANGED <<crawlVars, streamVars, mainVars, libVars, convVars>>

SpecFetch == InitFetch /\ [][NextFetch]_vars

InitRedirect ==
  /\ InitFetchVars
  /\ InitRedirVars
  /\ IdleAnaVars
  /\ IdleClientVars
  /\ IdleTruncVars
  /\ InitCrawlVars
  /\ IdleStreamVars
  /\ IdleMainVars
  /\ IdleDocVars
  /\ IdleFenceVars
  /\ maxWorkers = 1
  /\ IdleConvVars
  /\ IdleContextVars

\* one crawlSingle call whose request is answered through a chain of redirects
NextRedirect ==
  \/ NewRequest /\ UNCHANGED <<crawlVars, streamVars, mainVars, redirVars, anaVars, clientVars, truncVars, docVars, fenceVars, contextVars, convVars>>
  \/ DoFails /\ UNCHANGED <<crawlVars, streamVars, mainVars, redirVars, anaVars, clientVars, truncVars, docVars, fenceVars, contextVars, convVars>>
  \/ FollowRedirect /\ UNCHANGED <<crawlVars, streamVars, mainVars, anaVars, clientVars, truncVars, docVars, fenceVars, contextVars, convVars>>
  \/ RefuseRedirect /\ UNCHANGED <<crawlVars, streamVars, mainVars, anaVars, clientVars, truncVars, docVars, fenceVars, contextVars, convVars>>
  \/ \E r \in RedirectResponses : FinalResponse(r) /\ UNCHANGED <<crawlVars, streamVars, mainVars, anaVars, clientVars, truncVars, docVars, fenceVars, contextVars, convVars>>
  \/ CheckResponse /\ UNCHANGED <<crawlVars, streamVars, mainVars, redirVars, anaVars, clientVars, truncVars, docVars, fenceVars, contextVars, convVars>>
  \/ \E n \in 0..MaxBody : ReadBody(n) /\ UNCHANGED <<crawlVars, streamVars, mainVars, redirVars, anaVars, clientVars, truncVars, docVars, fenceVars, contextVars, convVars>>
  \/ \E parseErr \in BOOLEAN : Extract(parseErr) /\ UNCHANGED <<crawlVars, streamVars, mainVars, redirVars, anaVars, clientVars, truncVars, docVars, fenceVars, contextVars, convVars>>

SpecRedirect == InitRedirect /\ [][NextRedirect]_vars

InitAnalyze ==
  /\ IdleTruncVars
  /\ InitCrawlVars
  /\ IdleStreamVars
  /\ IdleMainVars
  /\ IdleFetchVars
  /\ IdleRedirVars
  /\ IdleClientVars
  /\ IdleDocVars
  /\ IdleFenceVars
  /\ maxWorkers = 1
  /\ IdleConvVars
  /\ IdleContextVars
  /\ InitAnaVars

\* the heuristic analyzer applied to one query
NextAnalyze ==
  \/ CallAnalyzeQuery /\ UNCHANGED <<progVars, redirVars, clientVars, truncVars, docVars, fenceVars, contextVars, convVars>>

SpecAnalyze == InitAnalyze /\ [][NextAnalyze]_vars

InitClient ==
  /\ IdleTruncVars
  /\ InitCrawlVars
  /\ IdleStreamVars
  /\ IdleMainVars
  /\ IdleFetchVars
  /\ IdleRedirVars
  /\ IdleAnaVars
  /\ IdleDocVars
  /\ IdleFenceVars
  /\ maxWorkers = 1
  /\ IdleConvVars
  /\ IdleContextVars
  /\ InitClientVars

\* one Search call of the search client
NextClient ==
  \/ SearchNewRequestFails /\ UNCHANGED <<progVars, redirVars, anaVars, truncVars, docVars, fenceVars, contextVars, convVars>>
  \/ SearchDoFails /\ UNCHANGED <<progVars, redirVars, anaVars, truncVars, docVars, fenceVars, contextVars, convVars>>
  \/ \E r \in SearchHTTPResponses : SearchDo(r) /\ UNCHANGED <<progVars, redirVars, anaVars, truncVars, docVars, fenceVars, contextVars, convVars>>
  \/ SearchCheckStatus /\ UNCHANGED <<progVars, redirVars, anaVars, truncVars, docVars, fenceVars, contextVars, convVars>>
  \/ SearchDecodeFails /\ UNCHANGED <<progVars, redirVars, anaVars, truncVars, docVars, fenceVars, contextVars, convVars>>
  \/ \E order \in Orders(Len(httpResp.Body.Results)) : SearchSortAndReturn(order) /\ UNCHANGED <<progVars, redirVars, anaVars, truncVars, docVars, fenceVars, contextVars, convVars>>

SpecClient == InitClient /\ [][NextClient]_vars

InitTruncate ==
  /\ InitCrawlVars
  /\ IdleStreamVars
  /\ IdleMainVars
  /\ IdleFetchVars
  /\ IdleRedirVars
  /\ IdleAnaVars
  /\ IdleClientVars
  /\ IdleDocVars
  /\ IdleFenceVars
  /\ maxWorkers = 1
  /\ IdleConvVars
  /\ IdleContextVars
  /\ InitTruncVars

\* the end of ExtractText applied to one body text
NextTruncate ==
  \/ CleanAndTruncate /\ UNCHANGED <<progVars, redirVars, anaVars, clientVars, docVars, fenceVars, contextVars, convVars>>

SpecTruncate == InitTruncate /\ [][NextTruncate]_vars

InitDocument ==
  /\ InitCrawlVars
  /\ IdleStreamVars
  /\ IdleMainVars
  /\ IdleFetchVars
  /\ IdleRedirVars
  /\ IdleAnaVars
  /\ IdleClientVars
  /\ IdleTruncVars
  /\ IdleFenceVars
  /\ maxWorkers = 1
  /\ IdleConvVars
  /\ IdleContextVars
  /\ InitDocVars

\* ExtractText applied to one parsed document
NextDocument ==
  \/ ExtractDocument /\ UNCHANGED <<progVars, redirVars, anaVars, clientVars, truncVars, fenceVars, contextVars, convVars>>

SpecDocument == InitDocument /\ [][NextDocument]_vars

InitFence ==
  /\ InitCrawlVars
  /\ IdleStreamVars
  /\ IdleMainVars
  /\ IdleFetchVars
  /\ IdleRedirVars
  /\ IdleAnaVars
  /\ IdleClientVars
  /\ IdleTruncVars
  /\ IdleDocVars
  /\ maxWorkers = 1
  /\ IdleConvVars
  /\ IdleContextVars
  /\ InitFenceVars

\* the reply of one decision call parsed by AnalyzeWithLLM
NextFence ==
  \/ ParseReply /\ UNCHANGED <<progVars, redirVars, anaVars, clientVars, truncVars, docVars, contextVars, convVars>>

SpecFence == InitFence /\ [][NextFence]_vars

InitContext ==
  /\ InitCrawlVars
  /\ IdleStreamVars
  /\ IdleMainVars
  /\ IdleFetchVars
  /\ IdleRedirVars
  /\ IdleAnaVars
  /\ IdleClientVars
  /\ IdleTruncVars
  /\ IdleDocVars
  /\ IdleFenceVars
  /\ maxWorkers = 1
  /\ IdleConvVars
  /\ InitContextVars

\* the context block built from one list of crawl results
NextContext ==
  \/ CallBuildSearchContext /\ UNCHANGED <<progVars, redirVars, anaVars, clientVars, truncVars, docVars, fenceVars, convVars>>

SpecContext == InitContext /\ [][NextContext]_vars

InitConversation ==
  /\ InitCrawlVars
  /\ IdleStreamVars
  /\ IdleFetchVars
  /\ IdleLibVars
  /\ maxWorkers = 1
  /\ loopPc = "prompt"
  /\ searxngErr = FALSE
  /\ autoSearch \in BOOLEAN
  /\ turn = 0
  /\ decision = ZeroDecision
  /\ analysisErr = ErrNil
  /\ searchQueries = 0
  /\ searched = 0
  /\ crawled = 0
  /\ chatSent = 0
  /\ saved = 0
  /\ failures = {}
  /\ endCause = "none"
  /\ InitConvVars

\* the turns of one session: what is asked, searched, sent and saved
NextConversation ==
  \/ \E input \in Inputs : \E q \in ConversationQueries : \E files \in FileContexts :
       ReadQuery(input, q, files) /\ UNCHANGED <<streamVars, mainVars, fetchVars, libVars>>
  \/ \E reply \in Replies : DecideSearch(reply) /\ UNCHANGED <<streamVars, mainVars, fetchVars, libVars>>
  \/ \E r \in SearchReturns : WebSearch(r) /\ UNCHANGED <<streamVars, mainVars, fetchVars, libVars>>
  \/ BuildMessages /\ UNCHANGED <<streamVars, mainVars, fetchVars, libVars>>
  \/ \E err \in {ErrNil, ErrStream} : StreamReply(err) /\ UNCHANGED <<streamVars, mainVars, fetchVars, libVars>>

SpecConversation == InitConversation /\ [][NextConversation]_vars

\* buildMessages in a turn that follows any saved session
InitMessages ==
  /\ InitCrawlVars
  /\ IdleStreamVars
  /\ IdleMainVars
  /\ IdleFetchVars
  /\ IdleLibVars
  /\ maxWorkers = 1
  /\ turnPc = "search"
  /\ searchRan = TRUE
  /\ messages = <<>>
  /\ chatErr = ErrNil
  /\ currentQuery \in ConversationQueries
  /\ fileContext \in FileContexts
  /\ \E qs \in SeqsUpTo(ConversationQueries, MaxSaved) : session = SessionOf(qs)

NextMessages ==
  \/ \E r \in SearchReturns : WebSearch(r) /\ UNCHANGED <<streamVars, mainVars, fetchVars, libVars>>
  \/ BuildMessages /\ UNCHANGED <<streamVars, mainVars, fetchVars, libVars>>

SpecMessages == InitMessages /\ [][NextMessages]_vars

\* ================================================================ properties
ResultURLs(rs) == [i \in 1..Len(rs) |-> rs[i].URL]

Delivered == Range(results) \cup Range(crawlResults)

Busy(w) == worker[w].pc \in {"do", "body"}

\* C1: for every pool size >= 1, every URL list (the empty one included) and
\* every combination of fetch outcomes, CrawlURLs returns len(urls) results.
C1_OneResultPerURL ==
  (pc = "done" /\ caller = "direct") => Len(returned) = Len(urls)

C1_Witness ==
  /\ pc = "done"
  /\ Len(urls) >= 2
  /\ \E i, j \in 1..Len(returned) :
       returned[i].Error = ErrNil /\ returned[j].Error # ErrNil

\* C2: the URLs of the returned results are, as a multiset, the input URLs;
\* the order of the results is free.
C2_ResultsMatchInput ==
  (pc = "done" /\ caller = "direct") =>
    /\ Range(ResultURLs(returned)) \subseteq Range(urls)
    /\ \A u \in URLs : Count(ResultURLs(returned), u) = Count(urls, u)

C2_Witness ==
  /\ pc = "done"
  /\ Len(returned) >= 2
  /\ ResultURLs(returned) # urls
  /\ \E i \in 1..Len(returned) : returned[i].Error # ErrNil

\* C3: in a batch started by performSearch or performMultiSearch no URL is
\* fetched twice, and a queued job is in the hands of one worker only.
C3_NoURLFetchedTwice ==
  caller \in {"performSearch", "performMultiSearch"} =>
    /\ \A u \in URLs : fetchCount[u] <= 1
    /\ \A w1, w2 \in Workers :
         (w1 # w2 /\ worker[w1].job # 0) => worker[w1].job # worker[w2].job

C8_NoDispatchAfterCancel == lateJobs = {}

\* C8 amended: after the cancellation the workers still take every queued
\* URL and call crawlSingle for it, but such a fetch fails at httpClient.Do
\* (it never gets to read a body) and is recorded as a failed request.
C8_LateFetchesFailFast ==
  /\ \A w \in Workers : worker[w].job \in lateJobs => worker[w].pc # "body"
  /\ \A r \in Delivered : r.job \in lateJobs => r.Error \in {ErrNewRequest, ErrRequest}
  /\ (pc = "done" /\ caller = "direct" /\ Len(urls) > 0) => taken = Len(urls)

C8_Witness ==
  /\ pc = "done"
  /\ lateJobs # {}
  /\ \E i \in 1..Len(returned) : returned[i].job \in lateJobs

\* a URL of the batch is still waiting to be taken by a worker
Waiting == taken < Len(urls)

\* without a step of worker w, another worker can move a URL forward: it is
\* free to take the next URL, or it is fetching and can deliver its result
OthersProceed(w) ==
  \E w2 \in Workers :
    /\ w2 # w
    /\ \/ worker[w2].pc = "range" /\ (jobs # <<>> \/ sent < Len(urls))
       \/ Busy(w2) /\ Len(results) < Len(urls)

\* C9 as stated: for every pool size, while one fetch has not returned the
\* URLs still waiting are taken and fetched by another worker.
C9_SlowURLNeverStalls ==
  \A w \in Workers : (Busy(w) /\ Waiting) => OthersProceed(w)

\* C9 amended: the same, for a pool of at least two workers.
C9_SlowURLDoesNotStallPool ==
  Min(maxWorkers, Len(urls)) >= 2 =>
    \A w \in Workers : (Busy(w) /\ Waiting) => OthersProceed(w)

C9_Witness ==
  /\ Min(maxWorkers, Len(urls)) >= 2
  /\ Busy(1)
  /\ Waiting
  /\ worker[2].pc = "range"
  /\ jobs # <<>>

\* C10: results is closed only after every worker has drained the queue and
\* exited; no worker sends on the closed channel and the aggregator sees it
\* closed only when every result has been delivered.
C10_CloseAfterWorkersExit ==
  /\ ~panicked
  /\ resultsClosed =>
       /\ \A w \in Workers : worker[w].pc \in {"none", "exited"}
       /\ jobs = <<>>
       /\ taken = Len(urls)
       /\ Len(results) + Len(crawlResults) = Len(urls)
  /\ (pc = "collect" /\ RangeResultsDone) => Len(crawlResults) = Len(urls)

C10_Witness ==
  /\ resultsClosed
  /\ numWorkers >= 2
  /\ results # <<>>
  /\ pc = "collect"

\* ---------------------------------------------------------------- splitter
IsChunk(l) == l.kind = "chunk"
IsReasoning(l) == IsChunk(l) /\ l.Thinking # "" /\ l.Content = "" /\ ~l.Done
IsAnswer(l) == IsChunk(l) /\ l.Thinking = "" /\ l.Content # "" /\ ~l.Done
IsTerminal(l) == IsChunk(l) /\ l.Thinking = "" /\ l.Content = "" /\ l.Done

\* reasoning fragments, then answer fragments, then the terminal marker
ReasoningThenAnswer(s) ==
  \E i \in 1..Len(s) : \E j \in (i + 1)..Len(s) :
    /\ Len(s) = j + 1
    /\ \A k \in 1..i : IsReasoning(s[k])
    /\ \A k \in (i + 1)..j : IsAnswer(s[k])
    /\ IsTerminal(s[j + 1])

EventIndexes(cb) == {k \in 1..Len(events) : events[k].cb = cb}

\* index of the first chunk with the completion flag, 0 if there is none
FirstDone(s) ==
  IF \E i \in 1..Len(s) : IsChunk(s[i]) /\ s[i].Done
    THEN CHOOSE i \in 1..Len(s) :
           /\ IsChunk(s[i]) /\ s[i].Done
           /\ \A k \in 1..(i - 1) : ~(IsChunk(s[k]) /\ s[k].Done)
    ELSE 0

RECURSIVE FragmentsOf(_, _)
FragmentsOf(s, field) ==
  IF s = <<>> THEN <<>>
  ELSE (IF IsChunk(Head(s)) /\ Head(s)[field] # "" THEN <<Head(s)[field]>> ELSE <<>>)
         \o FragmentsOf(Tail(s), field)

C5_OnDoneAtMostOnce ==
  /\ Cardinality(EventIndexes("OnDone")) <= 1
  /\ EventIndexes("OnDone") # {} =>
       \E j \in 1..streamPos : \E i \in 1..j :
         /\ IsChunk(stream[j]) /\ stream[j].Content # ""
         /\ IsChunk(stream[i]) /\ stream[i].Thinking # ""
  /\ (\A i \in 1..Len(stream) : ~(IsChunk(stream[i]) /\ stream[i].Thinking # "")) =>
       EventIndexes("OnDone") = {}

C5_Witness ==
  /\ streamPc = "returned"
  /\ Cardinality(EventIndexes("OnDone")) = 1
  /\ Cardinality(EventIndexes("OnAnswer")) >= 2
  /\ \E i \in 1..Len(stream) : IsChunk(stream[i]) /\ stream[i].Thinking # "" /\ stream[i].Content # ""

\* C6: the chunk with the completion flag ends consumption: its own
\* fragments are delivered, and no later line is consumed, reaches a
\* callback or changes a buffer.
C6_DoneStopsConsumption ==
  FirstDone(stream) > 0 =>
    /\ streamPos <= FirstDone(stream)
    /\ streamPos = FirstDone(stream) =>
         /\ streamPc = "returned"
         /\ thinkingBuf = FragmentsOf(SubSeq(stream, 1, FirstDone(stream)), "Thinking")
         /\ answerBuf = FragmentsOf(SubSeq(stream, 1, FirstDone(stream)), "Content")
         /\ (callbacks.OnThinking => Cardinality(EventIndexes("OnThinking")) = Len(thinkingBuf))
         /\ (callbacks.OnAnswer => Cardinality(EventIndexes("OnAnswer")) = Len(answerBuf))

C6_Witness ==
  /\ streamPc = "returned"
  /\ streamPos = 2
  /\ FirstDone(stream) = 2
  /\ IsChunk(stream[1]) /\ stream[1].Content # ""
  /\ stream[2].Content # ""
  /\ Len(stream) = 3
  /\ IsChunk(stream[3]) /\ stream[3].Content # "" /\ stream[3].Thinking # ""
  /\ callbacks.OnAnswer
  /\ Len(answerBuf) = 2

\* ---------------------------------------------------------------- pool size
InFlight == {w \in Workers : Busy(w)}

Started == {w \in Workers : worker[w].pc # "none"}

\* C11: a batch starts exactly min(maxWorkers, len(urls)) workers, so never
\* more than that many fetches are in flight; a batch of zero URLs starts no
\* worker and returns an empty list.
C11_PoolSize ==
  caller = "direct" =>
    /\ Cardinality(Started) = spawned
    /\ spawned <= Min(maxWorkers, Len(urls))
    /\ Cardinality(InFlight) <= Min(maxWorkers, Len(urls))
    /\ (pc \in {"collect", "done"} /\ Len(urls) > 0) => spawned = Min(maxWorkers, Len(urls))
    /\ (pc = "done" /\ Len(urls) = 0) => (Started = {} /\ returned = <<>>)

C11_Witness ==
  /\ caller = "direct"
  /\ Len(urls) = 2
  /\ maxWorkers = 2
  /\ Cardinality(InFlight) = 2

\* ---------------------------------------------------------------- stream failures
Consumed == SubSeq(stream, 1, streamPos)

\* C12: when the transport fails during the stream, ChatWithCallbacks returns
\* a non-nil error together with exactly the reasoning and answer text of the
\* chunks consumed before the failure.
C12_PartialOutputWithError ==
  streamPc = "returned" =>
    /\ chatReturn.thinking = FragmentsOf(Consumed, "Thinking")
    /\ chatReturn.answer = FragmentsOf(Consumed, "Content")
    /\ (chatReturn.err = ErrNil) =>
         (streamPos = Len(stream) \/ FirstDone(stream) = streamPos)

C12_Witness ==
  /\ streamPc = "returned"
  /\ chatReturn.err = ErrStream
  /\ FirstDone(stream) = 0
  /\ streamPos = 2
  /\ Len(stream) = 3
  /\ chatReturn.thinking # <<>>
  /\ chatReturn.answer # <<>>

\* C13: a line that is empty or does not parse as a chunk is skipped without
\* effect: no callback, the buffers and the transition flags unchanged, no
\* return, and the scan goes on with the next line.
C13_SkippedLineHasNoEffect ==
  [][(streamPos' = streamPos + 1 /\ stream[streamPos'].kind # "chunk") =>
       /\ streamPc' = "scan"
       /\ UNCHANGED <<thinkingBuf, answerBuf, wasThinking, isFirstAnswer,
                      events, chatReturn>>]_vars

C13_Witness ==
  /\ streamPos = 3
  /\ stream[1].kind = "malformed"
  /\ stream[2].kind = "empty"
  /\ stream[3].kind = "chunk" /\ stream[3].Thinking # "" /\ stream[3].Content # ""
  /\ ~stream[3].Done
  /\ streamPc = "scan"
  /\ Len(events) = 3
  /\ answerBuf = <<"x">>

\* ---------------------------------------------------------------- multi-query turns
InBatch == pc \in {"workers", "collect"}

\* C15: in a turn with two or more queries each distinct URL is handed to
\* the crawler at most once across all batches of the turn, also when it is
\* returned by several queries or several times by one; the returned source
\* list has each URL once, in first-seen order.
C15_EachURLDispatchedOnce ==
  caller = "performMultiSearch" =>
    /\ \A u \in URLs : Count(dispatched, u) <= 1
    /\ Range(dispatched) = seenURLs
    /\ dispatched = firstSeen
    /\ pc = "done" =>
         /\ sourceURLs = firstSeen
         /\ \A u \in URLs : Count(sourceURLs, u) <= 1

C15_Witness ==
  /\ caller = "performMultiSearch"
  /\ pc = "done"
  /\ searchCalls = 2
  /\ resultCount = 4
  /\ sourceURLs = <<"u2", "u1">>
  /\ urls = <<"u1">>
  /\ Len(allCrawlResults) = 2

\* C16: a search that fails or finds nothing for one query of a multi-query
\* turn is skipped: every query of the turn is still searched, the new URLs
\* of every other query are crawled, and the results of the batches already
\* crawled stay in the aggregate.
C16_FailedQueryIsSkipped ==
  caller = "performMultiSearch" =>
    /\ searchCalls = (IF pc = "search" THEN qi - 1 ELSE qi)
    /\ pc = "done" => searchCalls = numQueries
    /\ Len(allCrawlResults) = Len(dispatched) - (IF InBatch THEN Len(urls) ELSE 0)
    /\ \A i \in 1..Len(allCrawlResults) : allCrawlResults[i].URL \in Range(dispatched)
    /\ pc = "done" =>
         /\ Range(ResultURLs(allCrawlResults)) = Range(firstSeen)
         /\ Len(allCrawlResults) = Len(firstSeen)

C16_Witness ==
  /\ caller = "performMultiSearch"
  /\ pc = "done"
  /\ numQueries = 3
  /\ failedAt = {2}
  /\ Len(allCrawlResults) = 2
  /\ urls = <<"u2">>
  /\ sourceURLs = <<"u1", "u2">>

\* ---------------------------------------------------------------- main loop
\* C14: when the decision call fails or its reply is not decision JSON after
\* the fence was stripped, AnalyzeWithLLM returns an error with the zero
\* decision, and main performs no search and no crawl in that turn but still
\* sends the chat request.
C14_FailedAnalysisSkipsSearch ==
  analysisErr # ErrNil =>
    /\ decision = ZeroDecision
    /\ searched = 0
    /\ crawled = 0
    /\ loopPc # "search"
    /\ (loopPc = "chat" \/ chatSent = 1 \/ endCause = "signal")

C14_Witness ==
  /\ analysisErr = ErrParse
  /\ loopPc = "prompt"
  /\ chatSent = 1
  /\ saved = 2
  /\ searched = 0

\* C17: no failure inside a turn ends the loop: after a failed decision call,
\* a failed search, failed crawls or a failed chat stream main is back at the
\* prompt; only the end of input, an exit command or a termination signal
\* ends the loop.
C17_FailuresDoNotEndLoop ==
  [][/\ (loopPc \in LoopPcs /\ loopPc' = "ended") =>
          \/ endCause' = "signal"
          \/ loopPc = "prompt" /\ endCause' \in {"eof", "exit"}
     /\ (failures' # failures) => (loopPc' \in {"chat", "prompt"} /\ endCause' = "none")
     /\ (loopPc = "chat" /\ loopPc' # "chat") => (loopPc' = "prompt" \/ endCause' = "signal")]_vars

C17_Witness ==
  /\ failures = {"analysis", "search", "crawl", "chat"}
  /\ loopPc = "analyze"
  /\ turn = 3
  /\ endCause = "none"

\* ---------------------------------------------------------------- crawlSingle
\* the header names HTML or XHTML, in any case
NamesHTML(ct) ==
  Contains(ToLower(ct), TextHTML) \/ Contains(ToLower(ct), AppXHTML)

Returned == fetchPc = "returned"

\* C18: text extraction is attempted only for a response with status 200
\* whose Content-Type is absent or names HTML or XHTML; application/pdf gives
\* the content-type failure and any status but 200 the HTTP-status failure,
\* both without reading the body or calling the extractor.
C18_ExtractionOnlyForHTML ==
  /\ (bytesRead > 0 \/ extractCalls > 0 \/ fetchPc \in {"read", "extract"}) =>
       /\ resp.StatusCode = 200
       /\ (resp.ContentType = CTAbsent \/ NamesHTML(resp.ContentType))
  /\ (Returned /\ resp # NoResponse /\ resp.StatusCode # 200) =>
       (result.Error = ErrStatus /\ bytesRead = 0 /\ extractCalls = 0)
  /\ (Returned /\ resp.StatusCode = 200 /\ resp.ContentType = CTPdf) =>
       (result.Error = ErrContentType /\ bytesRead = 0 /\ extractCalls = 0)

C18_Witness ==
  /\ Returned
  /\ resp.StatusCode = 200
  /\ resp.ContentType = CTPdf
  /\ Len(resp.Body) = MaxBody
  /\ result.Error = ErrContentType

\* C19: every path through crawlSingle returns a CrawlResult with the
\* requested URL and a recorded duration, and either the failure is set and
\* title and text are empty, or the failure is unset and title and text are
\* what the extractor made of the bytes read.
C19_ResultShape ==
  /\ result.URL = urlStr
  /\ Returned =>
       /\ result.Duration = "elapsed"
       /\ \/ result.Error # ErrNil /\ result.Title = "" /\ result.Content = <<>>
          \/ /\ result.Error = ErrNil
             /\ extractCalls = 1
             /\ result.Title = ExtractText(body).title
             /\ result.Content = ExtractText(body).text

C19_Witness ==
  /\ Returned
  /\ result.Error = ErrReadBody
  /\ bytesRead = 1
  /\ "t" \in Range(resp.Body)
  /\ result.Title = ""
  /\ result.Duration = "elapsed"

Oversize == Len(resp.Body) > maxSize

\* C20 as stated: a body larger than maxSize makes the result a failure, and
\* at most maxSize bytes are read.
C20_OversizeIsFailure ==
  /\ bytesRead <= maxSize
  /\ (Returned /\ extractCalls > 0 /\ Oversize) => result.Error # ErrNil

\* C20: a body larger than maxSize is no failure of its own: the first
\* maxSize bytes are read and handed to the extractor and the rest is
\* dropped; at most maxSize bytes are read whatever length was declared.
C20_OversizeIsTruncated ==
  /\ bytesRead <= maxSize
  /\ Len(body) <= maxSize
  /\ (fetchPc \in {"extract", "returned"} /\ ~resp.ReadErr /\ resp.StatusCode = 200
        /\ bytesRead + extractCalls > 0) =>
       body = SubSeq(resp.Body, 1, Min(Len(resp.Body), maxSize))
  /\ (Returned /\ extractCalls > 0 /\ Oversize) =>
       \/ result.Error = ErrExtract
       \/ /\ result.Error = ErrNil
          /\ result.Content = ExtractText(SubSeq(resp.Body, 1, maxSize)).text

C20_Witness ==
  /\ Returned
  /\ Oversize
  /\ resp.ContentLength = Len(resp.Body)
  /\ bytesRead = maxSize
  /\ result.Error = ErrNil
  /\ result.Content # <<>>
  /\ result.Content # ExtractText(resp.Body).text

\* ---------------------------------------------------------------- redirects
\* C21 (as the claim states it): a chain of up to 10 redirects is followed, so
\* CheckRedirect refuses a fetch only when the server gives 11 or more redirects
C21_TenRedirectsAllowed ==
  redirectErr => redirects >= 11

\* what the code does: the redirect number 10 is refused, 9 are followed
C21_NineRedirectsFollowed ==
  /\ redirectErr => (redirects >= MaxRedirects /\ via = MaxRedirects /\ result.Error = ErrRequest)
  /\ (fetchPc = "returned" /\ redirects >= MaxRedirects) => result.Error # ErrNil
  /\ (fetchPc \in {"check", "read", "extract"}) => (via = redirects /\ redirects < MaxRedirects)

\* a chain of exactly 10 redirects before a 200 HTML page: the fetch has failed
C21_ChainOfTenRefused ==
  /\ redirects = 10
  /\ redirectErr
  /\ fetchPc = "returned"
  /\ result.Error = ErrRequest
  /\ result.Content = <<>>

\* a chain of 9 redirects is followed to its page
C21_ChainOfNineFollowed ==
  /\ redirects = 9
  /\ via = 9
  /\ fetchPc = "returned"
  /\ result.Error = ErrNil

\* ---------------------------------------------------------------- heuristic analyzer
\* some keyword of the list occurs in the lower-cased, trimmed query
Matches(input, patterns) ==
  \E k \in 1..Len(patterns) : Contains(ToLower(TrimSpace(input)), patterns[k])

Analyzed == trigger # NoTrigger

Blank(input) == \A k \in 1..Len(input) : IsSpace(input[k])

\* the sum over the five categories, each counted once
CategorySum(input) ==
  (IF Matches(input, timeSensitive) THEN 40 ELSE 0)
  + (IF Matches(input, factualQueries) THEN 30 ELSE 0)
  + (IF Matches(input, researchQueries) THEN 20 ELSE 0)
  + (IF Matches(input, explanationQueries) THEN -30 ELSE 0)
  + (IF Matches(input, codeQueries) THEN -40 ELSE 0)

OnlyTimeSensitive(input) ==
  /\ Matches(input, timeSensitive)
  /\ ~Matches(input, factualQueries)
  /\ ~Matches(input, researchQueries)
  /\ ~Matches(input, explanationQueries)
  /\ ~Matches(input, codeQueries)

\* C22: the score of a query is the sum over the five categories (+40, +30, +20,
\* -30, -40), each counted once on the lower-cased, trimmed query; NeedsSearch
\* holds exactly when the score is above 40; the example query scores 70 with
\* NeedsSearch; a blank query gives score 0 without NeedsSearch
C22_ScoreIsCategorySum ==
  Analyzed =>
    /\ trigger.Confidence = (IF Blank(query) THEN 0 ELSE CategorySum(query))
    /\ trigger.NeedsSearch = (~Blank(query) /\ CategorySum(query) > 40)
    /\ (query = ExampleNewsToday) => (trigger.Confidence = 70 /\ trigger.NeedsSearch)
    /\ Blank(query) => (trigger.Confidence = 0 /\ ~trigger.NeedsSearch)

\* the example query analyzed, and four keywords of one category in it
C22_Witness ==
  /\ Analyzed
  /\ query = ExampleNewsToday
  /\ countMatches(ToLower(TrimSpace(query)), timeSensitive) = 4
  /\ trigger.Confidence = 70
  /\ trigger.NeedsSearch

\* all five categories in one padded query with upper-case letters: 40+30+20-30-40
C22_WitnessAllCategories ==
  /\ Analyzed
  /\ query # TrimSpace(query)
  /\ Reasons(ToLower(TrimSpace(query))) =
       <<"time-sensitive", "factual", "research", "explanation (LLM better)", "code (LLM better)">>
  /\ trigger.Confidence = 20
  /\ ~trigger.NeedsSearch

\* C23 (as the claim states it): a query matching only time-sensitive keywords
\* yields NeedsSearch
C23_TimeSensitiveAloneTriggers ==
  (Analyzed /\ OnlyTimeSensitive(query)) => trigger.NeedsSearch

\* C23 (amended): a query matching only time-sensitive keywords scores exactly
\* 40, which is not above the threshold, and yields no NeedsSearch
C23_TimeSensitiveAloneScores40 ==
  (Analyzed /\ OnlyTimeSensitive(query)) =>
    (trigger.Confidence = 40 /\ ~trigger.NeedsSearch /\ trigger.Reason = <<"time-sensitive">>)

C23_Witness ==
  /\ Analyzed
  /\ query = ExampleLatestAINews
  /\ OnlyTimeSensitive(query)
  /\ trigger.Confidence = 40
  /\ ~trigger.NeedsSearch

\* ---------------------------------------------------------------- search client
SearchSucceeded == searchPc = "returned" /\ searchRet.Err = NoError

Found == httpResp.Body.Results

Kept == searchRet.Results.list

KeptIDs == { Kept[i].ID : i \in 1..Len(Kept) }

\* C24: a successful Search returns min(maxResults, n) of the n results of the
\* response, each at most once, in non-increasing order of score, and no result
\* left out has a higher score than a returned one
C24_TopResultsByScore ==
  SearchSucceeded =>
    /\ Len(Kept) = Min(maxResults, Len(Found))
    /\ \A i \in 1..Len(Kept) : \E k \in 1..Len(Found) : Kept[i] = Found[k]
    /\ Cardinality(KeptIDs) = Len(Kept)
    /\ \A i, j \in 1..Len(Kept) : i < j => Kept[i].Score >= Kept[j].Score
    /\ \A i \in 1..Len(Kept) : \A k \in 1..Len(Found) :
         Found[k].ID \notin KeptIDs => Kept[i].Score >= Found[k].Score

\* three results with rising scores, two are asked for: the last two come back, reversed
C24_Witness ==
  /\ SearchSucceeded
  /\ maxResults = 2
  /\ Len(Found) = 3
  /\ Found[1].Score = 0 /\ Found[2].Score = 1 /\ Found[3].Score = 2
  /\ Kept = <<Found[3], Found[2]>>

\* C25: Search returns results only for status 200 and a body that decodes; 403
\* gives the error of the disabled JSON API, any other status but 200 an error
\* carrying the status, a body that does not decode a parse error; an error
\* never comes with results
C25_ErrorsReturnNoResults ==
  searchPc = "returned" =>
    /\ ~searchRet.Results.nil => (httpResp.StatusCode = 200 /\ httpResp.Body.Decodes /\ searchRet.Err = NoError)
    /\ httpResp.StatusCode = 403 => searchRet.Err = ErrForbidden
    /\ httpResp.StatusCode \notin {0, 200, 403} =>
         (searchRet.Err.kind = "SearXNG returned status" /\ searchRet.Err.status = httpResp.StatusCode)
    /\ (httpResp.StatusCode = 200 /\ ~httpResp.Body.Decodes) => searchRet.Err = ErrSearchParse
    /\ httpResp.StatusCode = 0 => searchRet.Err \in {ErrCreateRequest, ErrSearchRequest}
    /\ searchRet.Err # NoError => searchRet.Results = NilResults

\* status 500 with a body that would decode to results: an error and no results
C25_Witness ==
  /\ searchPc = "returned"
  /\ httpResp.StatusCode = 500
  /\ httpResp.Body.Decodes
  /\ Len(httpResp.Body.Results) = 2
  /\ searchRet = [Results |-> NilResults, Err |-> ErrSearchStatus(500)]

\* status 403: the distinguished error
C25_WitnessForbidden ==
  /\ searchPc = "returned"
  /\ httpResp.StatusCode = 403
  /\ httpResp.Body.Decodes
  /\ searchRet = [Results |-> NilResults, Err |-> ErrForbidden]

\* status 200 with a body that does not decode
C25_WitnessMalformed ==
  /\ searchPc = "returned"
  /\ httpResp.StatusCode = 200
  /\ ~httpResp.Body.Decodes
  /\ searchRet = [Results |-> NilResults, Err |-> ErrSearchParse]

\* ---------------------------------------------------------------- startup
\* C26: after a failed SearXNG health check startup goes on to the loop with
\* auto-search off, and in no turn of the session is a decision call, a search
\* or a crawl made; a failed Ollama health check (or model check) ends the
\* program before the first prompt
C26_SearchHealthIsAdvisory ==
  /\ searxngErr =>
       /\ ~autoSearch
       /\ loopPc \notin StartupPcs
       /\ loopPc \notin {"analyze", "search"}
       /\ decision = ZeroDecision /\ analysisErr = ErrNil
       /\ searchQueries = 0 /\ searched = 0 /\ crawled = 0
       /\ failures \subseteq {"chat"}
       /\ endCause \in {"none", "eof", "exit", "signal"}
  /\ endCause \in {"health", "model"} =>
       (loopPc = "ended" /\ ~searxngErr /\ turn = 0 /\ chatSent = 0 /\ saved = 0)
  /\ loopPc \in StartupPcs => (turn = 0 /\ endCause = "none")

\* the search service was down at startup and the second turn has been answered
C26_Witness ==
  /\ searxngErr
  /\ turn = 2
  /\ saved = 4
  /\ chatSent = 1
  /\ loopPc = "prompt"

\* the inference service was down at startup
C26_WitnessAbort ==
  /\ endCause = "health"
  /\ loopPc = "ended"
  /\ turn = 0

\* ---------------------------------------------------------------- text truncation
\* the words of a text, in order
WordsOf(t) == SelectSeq(t, LAMBDA x : x > 0)

\* the words w, one blank between each two of them
Spaced(t, w) ==
  /\ \A i \in 1..Len(w) : t[2 * i - 1] = w[i]
  /\ \A i \in 1..(Len(w) - 1) : t[2 * i] = Space

\* C27: a text of more than 500 words is returned as its first 500 words, one
\* blank between them, followed by the marker; a text of 500 words or fewer is
\* returned whole (cleaned) and without the marker
C27_TruncatesAt500Words ==
  truncPc = "returned" =>
    LET all == WordsOf(bodyText)
    IN IF Len(all) > 500
         THEN /\ Len(extractedText) = 1000
              /\ Spaced(extractedText, SubSeq(all, 1, 500))
              /\ extractedText[1000] = Ellipsis
         ELSE /\ extractedText = cleanText(bodyText)
              /\ Len(extractedText) = Max(2 * Len(all) - 1, 0)
              /\ Spaced(extractedText, all)

\* 501 words: the word 501 is dropped and the marker follows the word 500
C27_Witness ==
  /\ truncPc = "returned"
  /\ Len(WordsOf(bodyText)) = 501
  /\ Len(WordsOf(extractedText)) = 500
  /\ extractedText[999] = 500
  /\ extractedText[1000] = Ellipsis

\* exactly 500 words: nothing is dropped, no marker
C27_WitnessAtThreshold ==
  /\ truncPc = "returned"
  /\ Len(WordsOf(bodyText)) = 500
  /\ bodyText[1] = Gap
  /\ Len(extractedText) = 999
  /\ extractedText[999] = 500

\* ---------------------------------------------------------------- text extractor
\* the elements the node i lies inside
Ancestors(d, i) ==
  { a \in 1..(i - 1) : /\ d[a].Depth < d[i].Depth
                       /\ \A k \in (a + 1)..i : d[k].Depth > d[a].Depth }

InsideSkipped(d, i) == \E a \in Ancestors(d, i) : d[a].Tag \in SkipTags

TextNodes(d) == { i \in 1..Len(d) : d[i].Type = "text" }

Extracted == docPc = "returned"

\* C28: the body text holds no word of a text node inside a script, style,
\* nav, footer, header or aside element at any depth, and holds the word of
\* every other text node, in document order with one blank between them
C28_SkippedSubtreesLeaveNoText ==
  Extracted =>
    /\ \A i \in TextNodes(doc) : InsideSkipped(doc, i) => i \notin Range(extracted.text)
    /\ \A i \in TextNodes(doc) : ~InsideSkipped(doc, i) => i \in Range(extracted.text)
    /\ WordsOf(extracted.text) =
         SelectSeq([j \in 1..Len(doc) |-> j],
                   LAMBDA j : j \in TextNodes(doc) /\ ~InsideSkipped(doc, j))
    /\ Spaced(extracted.text, WordsOf(extracted.text))

\* the document script(text 2) p(text 4): the text is the word 4 alone
C28_Witness ==
  /\ Extracted
  /\ doc = <<ElementNode(1, "script"), TextNode(2, 2), ElementNode(1, "p"), TextNode(2, 4)>>
  /\ extracted.text = <<4>>

\* a text node two levels below a skipped element, and one beside it
C28_WitnessDeep ==
  /\ Extracted
  /\ doc = <<ElementNode(1, "aside"), ElementNode(2, "p"), TextNode(3, 3), TextNode(1, 4)>>
  /\ extracted.text = <<4>>

TitleElements(d) == { i \in 1..Len(d) : d[i].Type = "element" /\ d[i].Tag = "title" }

FirstTitle(d) == CHOOSE i \in TitleElements(d) : \A j \in TitleElements(d) : i <= j

\* the words of the text nodes inside the element i, in document order
FlattenedText(d, i) ==
  SelectSeq([j \in 1..Len(d) |-> j], LAMBDA j : j \in TextNodes(d) /\ i \in Ancestors(d, j))

\* C29 (as the claim states it): the title is the flattened text of the first
\* title element in document order, empty when the document has none
C29_TitleIsFirstTitleElement ==
  Extracted =>
    extracted.title = (IF TitleElements(doc) = {} THEN <<>> ELSE FlattenedText(doc, FirstTitle(doc)))

\* what the code does: the first title element whose flattened text is not empty
C29_TitleIsFirstNonEmptyTitle ==
  Extracted =>
    LET full == { i \in TitleElements(doc) : FlattenedText(doc, i) # <<>> }
    IN extracted.title = (IF full = {} THEN <<>>
                          ELSE FlattenedText(doc, CHOOSE i \in full : \A j \in full : i <= j))

\* an empty title element before a title element with text: the later one is returned
C29_LaterTitleUsed ==
  /\ Extracted
  /\ doc = <<ElementNode(1, "title"), ElementNode(1, "title"), TextNode(2, 3)>>
  /\ extracted.title = <<3>>

\* ---------------------------------------------------------------- decision reply
\* the reply is the enclosed text inside a fence with the tag tag
FencedWith(tag) ==
  \E before \in Margins, after \in Margins : response = Fenced(enclosed, tag, before, after)

IsFenced == \E tag \in FenceTags : FencedWith(tag)

\* what the bare JSON text parses to
BareDecision == [decision |-> DecisionOf(enclosed), err |-> ErrNil]

\* C30 (as the claim states it): a decision reply inside a code fence, with or
\* without a language tag and with white space around it, parses to the
\* decision of the bare JSON it encloses
C30_FenceStrippingTransparent ==
  (parsePc = "returned" /\ enclosed \in JSONTexts /\ IsFenced) => parsed = BareDecision

\* what the code does: the fence is transparent when its tag is json or absent;
\* any other tag stays in front of the JSON and the parse fails
C30_OnlyJsonTagTransparent ==
  (parsePc = "returned" /\ enclosed \in JSONTexts) =>
    /\ (FencedWith(<<>>) \/ FencedWith(<<"j", "s", "o", "n">>) \/ ~IsFenced) => parsed = BareDecision
    /\ (FencedWith(<<"J", "S", "O", "N">>) \/ FencedWith(<<"j", "s">>)) =>
         parsed = [decision |-> ZeroDecision, err |-> ErrParse]

\* a reply that asks for a search inside a fence tagged JSON: a parse error
C30_UpperCaseTagFails ==
  /\ parsePc = "returned"
  /\ enclosed = "{needs_search:true,search_queries:[q1,q2]}"
  /\ FencedWith(<<"J", "S", "O", "N">>)
  /\ parsed = [decision |-> ZeroDecision, err |-> ErrParse]

\* the same reply inside a fence tagged json, white space around it
C30_JsonTagParses ==
  /\ parsePc = "returned"
  /\ enclosed = "{needs_search:true,search_queries:[q1,q2]}"
  /\ response = Fenced(enclosed, <<"j", "s", "o", "n">>, <<" ", "\n">>, <<" ", "\n">>)
  /\ parsed = [decision |-> [NeedsSearch |-> TRUE, SearchQueries |-> 2], err |-> ErrNil]

\* ---------------------------------------------------------------- context block
\* the results that contribute a block: crawled without error, text not empty
Contributing(rs) == SelectSeq(rs, LAMBDA r : r.Error = ErrNil /\ r.Content # "")

LinesOf(block, kind) == SelectSeq(block, LAMBDA l : l.kind = kind)

\* C31: the context block holds exactly the crawl results that succeeded with
\* non-empty text, each with its title and URL, in aggregate order and
\* numbered consecutively from 1; failed and empty results contribute nothing
\* and leave no gap in the numbering.
C31_ContextHoldsSuccessfulResults ==
  contextPc = "returned" =>
    LET kept == Contributing(contextResults)
        sources == LinesOf(contextBlock, "source")
        links == LinesOf(contextBlock, "url")
        texts == LinesOf(contextBlock, "content")
    IN /\ Len(sources) = Len(kept)
       /\ Len(links) = Len(kept)
       /\ Len(texts) = Len(kept)
       /\ \A i \in 1..Len(kept) :
            /\ sources[i].n = i
            /\ sources[i].text = kept[i].Title
            /\ links[i].text = kept[i].URL
            /\ texts[i].text = kept[i].Content

\* a failure and an empty page stand between two pages that contribute
C31_Witness ==
  /\ contextPc = "returned"
  /\ Len(contextResults) = 3
  /\ contextResults[1].Error = ErrNil /\ contextResults[1].Content # ""
  /\ contextResults[2].Error = ErrNil /\ contextResults[2].Content = ""
  /\ contextResults[3].Error = ErrNil /\ contextResults[3].Content # ""
  /\ contextResults[1].URL # contextResults[3].URL
  /\ LinesOf(contextBlock, "source")[2].n = 2

C31_WitnessFailure ==
  /\ contextPc = "returned"
  /\ Len(contextResults) = 2
  /\ contextResults[1].Error # ErrNil
  /\ contextResults[2].Error = ErrNil /\ contextResults[2].Content # ""
  /\ LinesOf(contextBlock, "source")[1].n = 1

\* ---------------------------------------------------------------- session log
Alternates(msgs) ==
  /\ Len(msgs) % 2 = 0
  /\ \A i \in 1..Len(msgs) :
       msgs[i].Role = (IF i % 2 = 1 THEN "user" ELSE "assistant")

\* C32: the session changes only when the streaming chat returned without
\* error, and then by the user message followed by the assistant message of
\* the turn; a failed chat, a command and an empty query append nothing; so
\* the session always has even length and alternates user, assistant.
C32_SavedOnlyAfterCompletedTurn ==
  /\ [](Alternates(session))
  /\ [][/\ (session' # session) =>
             /\ turnPc = "chat" /\ chatErr' = ErrNil
             /\ Len(session') = Len(session) + 2
             /\ SubSeq(session', 1, Len(session)) = session
             /\ session'[Len(session) + 1].Role = "user"
             /\ session'[Len(session) + 1].Content = Text(currentQuery)
             /\ session'[Len(session) + 2].Role = "assistant"
        /\ (turnPc = "chat" /\ chatErr' # ErrNil) => session' = session
        /\ (turnPc = "prompt") => session' = session]_vars

\* a chat failed after two exchanges had been saved
C32_Witness ==
  /\ turnPc = "prompt"
  /\ Len(session) = 4
  /\ chatErr = ErrStream
  /\ messages # <<>>
  /\ session[1].Content # session[3].Content

C32_WitnessSaved ==
  /\ turnPc = "prompt"
  /\ Len(session) = 6
  /\ chatErr = ErrNil
  /\ session[6].Metadata.SearchPerformed

\* ---------------------------------------------------------------- search decision
\* the decision about the query of this turn has been taken
Decided == turnPc \in {"search", "build", "chat"}

\* C34: with auto-search enabled a search runs exactly when the keyword
\* heuristic AnalyzeQuery reports NeedsSearch for the query.
C34_SearchIffKeywordHeuristic ==
  (autoSearch /\ Decided) =>
    (searchRan <=> AnalyzeQuery(Spelling(currentQuery)).NeedsSearch)

\* what main does: a search runs only after the decision call
C34_SearchFollowsDecisionCall ==
  [][(searchRan' /\ ~searchRan) => (turnPc = "analyze" /\ turnPc' = "search")]_vars

C34_SearchedAgainstHeuristic ==
  /\ autoSearch
  /\ turnPc = "build"
  /\ searchRan
  /\ ~AnalyzeQuery(Spelling(currentQuery)).NeedsSearch

C34_NotSearchedAgainstHeuristic ==
  /\ autoSearch
  /\ turnPc = "build"
  /\ ~searchRan
  /\ AnalyzeQuery(Spelling(currentQuery)).NeedsSearch

\* ---------------------------------------------------------------- request
\* the saved messages the request carries
Recent == SubSeq(session, Max(1, Len(session) - 9), Len(session))

PairLen == IF searchContext # NoContext THEN 2 ELSE 0

\* C40: the request is one system message, then the search-context pair if
\* there is a context, then at most the 10 most recent saved messages in
\* their order, then the current query as the last message; the query of the
\* turn occurs once, the session not holding it yet.
C40_RequestOrder ==
  turnPc = "chat" =>
    /\ Len(messages) = 1 + PairLen + Len(Recent) + 1
    /\ Len(Recent) <= 10
    /\ messages[1].Role = "system"
    /\ PairLen = 2 =>
         /\ messages[2] = Message("user", searchContext)
         /\ messages[3].Role = "assistant"
    /\ \A i \in 1..Len(Recent) :
         /\ messages[1 + PairLen + i].Role = Recent[i].Role
         /\ messages[1 + PairLen + i].Content = Recent[i].Content
    /\ messages[Len(messages)].Role = "user"
    /\ LET last == messages[Len(messages)].Content
       IN last[Len(last)].text = currentQuery

\* twelve messages are saved, ten of them are sent behind the context pair
C40_Witness ==
  /\ turnPc = "chat"
  /\ Len(session) = 12
  /\ Len(messages) = 14
  /\ PairLen = 2
  /\ fileContext # NoFiles
  /\ session[1].Content # session[3].Content
  /\ messages[4].Content = session[3].Content

C40_WitnessShort ==
  /\ turnPc = "chat"
  /\ Len(session) = 2
  /\ Len(messages) = 4
  /\ PairLen = 0

\* ---------------------------------------------------------------- web data
\* the crawl results of the turn
Gathered == IF caller = "performMultiSearch" THEN allCrawlResults ELSE returned

AnnouncesWeb == \E i \in 1..Len(messages[1].Content) : messages[1].Content[i].text = WebNotice

HasContextPair ==
  \E i \in 1..Len(messages) :
    messages[i].Role = "assistant" /\ messages[i].Content = Text(ContextAck)

\* C38: when the searches of a turn gave no successful crawl result with
\* text, the request holds no search-context pair and the system prompt does
\* not announce web information.
C38_NoWebDataNoContext ==
  (turnPc = "chat" /\ Contributing(Gathered) = <<>>) =>
    (~HasContextPair /\ ~AnnouncesWeb)

\* what the code guarantees: no context after a single search that failed or
\* found nothing
C38_FailedSingleSearchNoContext ==
  (turnPc = "chat" /\ caller = "performSearch" /\ dispatched = <<>>) =>
    (~HasContextPair /\ ~AnnouncesWeb)

C38_EmptyContextSent ==
  /\ turnPc = "chat"
  /\ Gathered # <<>>
  /\ Contributing(Gathered) = <<>>
  /\ HasContextPair
  /\ AnnouncesWeb

\* ---------------------------------------------------------------- sources
InContext(u) ==
  \E i \in 1..Len(messages) : \E j \in 1..Len(messages[i].Content) :
    messages[i].Content[j].kind = "url" /\ messages[i].Content[j].text = u

\* C39: every URL stored as a source of an assistant reply was crawled with
\* success and its text is in the context block sent in that turn.
C39_SourcesWereUsed ==
  \A i \in 1..Len(session) :
    session[i].Metadata.SearchPerformed =>
      \A u \in Range(session[i].Metadata.SourceURLs) :
        /\ \E r \in Range(Contributing(Gathered)) : r.URL = u
        /\ InContext(u)

\* what the code stores: the URLs handed to the crawler
C39_SourcesWereDispatched ==
  \A i \in 1..Len(session) :
    session[i].Metadata.SearchPerformed =>
      session[i].Metadata.SourceURLs = dispatched

C39_FailedURLStored ==
  /\ Len(session) = 2
  /\ session[2].Metadata.SearchPerformed
  /\ \E u \in Range(session[2].Metadata.SourceURLs) :
       /\ \E r \in Range(Gathered) : r.URL = u /\ r.Error # ErrNil
       /\ ~InContext(u)

\* ---------------------------------------------------------------- channel separation
\* C36: whenever OnDone was called, every OnThinking call precedes it and
\* every OnAnswer call follows it, also on streams in which an answer
\* fragment precedes the first reasoning fragment or a reasoning fragment
\* follows an answer fragment.
C36_OnDoneSeparatesChannels ==
  \A d \in EventIndexes("OnDone") :
    /\ \A k \in EventIndexes("OnThinking") : k < d
    /\ \A k \in EventIndexes("OnAnswer") : d < k

\* an answer fragment was delivered before the first reasoning fragment, and
\* OnDone was called after it
C36_AnswerBeforeOnDone ==
  /\ streamPc = "returned"
  /\ \E d \in EventIndexes("OnDone") : \E k \in EventIndexes("OnAnswer") : k < d
  /\ \A d \in EventIndexes("OnDone") : \A k \in EventIndexes("OnThinking") : k < d

\* a reasoning fragment was delivered after OnDone and after an answer fragment
C36_ThinkingAfterOnDone ==
  /\ streamPc = "returned"
  /\ \E d \in EventIndexes("OnDone") : \E k \in EventIndexes("OnThinking") : d < k
  /\ \A d \in EventIndexes("OnDone") : \A k \in EventIndexes("OnAnswer") : d < k

\* ---------------------------------------------------------------- buffers
\* the arguments of the calls of one callback, in call order
RECURSIVE ArgsOf(_, _)
ArgsOf(evs, cb) ==
  IF evs = <<>> THEN <<>>
  ELSE (IF Head(evs).cb = cb THEN <<Head(evs).arg>> ELSE <<>>) \o ArgsOf(Tail(evs), cb)

\* C37: at every point of a stream and at return the reasoning buffer is the
\* list, in arrival order, of the reasoning fragments consumed, which is the
\* list of fragments passed to OnThinking when it is installed; likewise the
\* answer buffer and OnAnswer; the buffers do not depend on the callbacks, and
\* the strings returned are the buffers.
C37_BuffersAreTheFragmentsDelivered ==
  /\ thinkingBuf = FragmentsOf(Consumed, "Thinking")
  /\ answerBuf = FragmentsOf(Consumed, "Content")
  /\ ArgsOf(events, "OnThinking") = (IF callbacks.OnThinking THEN thinkingBuf ELSE <<>>)
  /\ ArgsOf(events, "OnAnswer") = (IF callbacks.OnAnswer THEN answerBuf ELSE <<>>)
  /\ streamPc = "returned" =>
       /\ chatReturn.thinking = thinkingBuf
       /\ chatReturn.answer = answerBuf

C37_Witness ==
  /\ streamPc = "returned"
  /\ callbacks.OnThinking /\ callbacks.OnAnswer
  /\ thinkingBuf = <<"r1", "r2">>
  /\ Len(answerBuf) = 2
  /\ answerBuf[1] # answerBuf[2]
  /\ chatReturn.err = ErrNil

C37_WitnessNoObserver ==
  /\ streamPc = "returned"
  /\ ~callbacks.OnThinking /\ ~callbacks.OnAnswer
  /\ thinkingBuf = <<"r2", "r1">>
  /\ Len(answerBuf) = 3
  /\ events = <<>>

\* ---------------------------------------------------------------- think tags
\* what the tags delimit: the content fragments between an opening and a
\* closing tag are reasoning, the others answer, the tags neither
RECURSIVE Delimited(_, _)
Delimited(fragments, inThinking) ==
  IF fragments = <<>> THEN [reasoning |-> <<>>, answer |-> <<>>]
  ELSE LET f == Head(fragments) IN
    IF f = OpenTag THEN Delimited(Tail(fragments), TRUE)
    ELSE IF f = CloseTag THEN Delimited(Tail(fragments), FALSE)
    ELSE LET rest == Delimited(Tail(fragments), inThinking) IN
      IF inThinking THEN [rest EXCEPT !.reasoning = <<f>> \o @]
      ELSE [rest EXCEPT !.answer = <<f>> \o @]

\* C33: reasoning text between think tags in the streamed content is
\* delivered to OnThinking and kept out of the answer, the tags are removed,
\* and the closing tag leads to the OnDone call.
C33_ThinkTagsDetected ==
  LET content == FragmentsOf(Consumed, "Content")
      split == Delimited(content, FALSE)
  IN /\ answerBuf = split.answer
     /\ callbacks.OnThinking =>
          \A f \in Range(split.reasoning) : f \in Range(ArgsOf(events, "OnThinking"))
     /\ (callbacks.OnDone /\ CloseTag \in Range(content) /\ split.answer # <<>>) =>
          EventIndexes("OnDone") # {}

\* the tags and the text between them are in the answer, unchanged, no
\* reasoning was delivered and OnDone was not called
C33_TagsInAnswer ==
  /\ streamPc = "returned"
  /\ chatReturn.err = ErrNil
  /\ callbacks = [OnThinking |-> TRUE, OnAnswer |-> TRUE, OnDone |-> TRUE]
  /\ chatReturn.answer = <<OpenTag, "a1", CloseTag>>
  /\ \E k \in 1..Len(answerBuf) :
       processThinkingTags(answerBuf[k], FALSE, FALSE).content # answerBuf[k]
  /\ ArgsOf(events, "OnAnswer") = <<OpenTag, "a1", CloseTag>>
  /\ ArgsOf(events, "OnThinking") = <<>>
  /\ EventIndexes("OnDone") = {}

\* ---------------------------------------------------------------- termination
Exited == {w \in Workers : worker[w].pc = "exited"}

AtSend == pc = "workers" /\ spawned = numWorkers /\ sent < Len(urls)

\* C35: a CrawlURLs call terminates without deadlock when the goroutines are
\* scheduled fairly and every fetch returns: the dispatcher always finds room
\* in the job queue, a worker with a result always finds room in the result
\* queue, the result queue is closed only after the job queue was closed and
\* drained and every worker exited, and the call, once started, closes the
\* job queue, then sees every worker exit, then closes the result queue, and
\* returns.
C35_CrawlURLsTerminates ==
  /\ [](AtSend => Len(jobs) < Buffer(urls))
  /\ [](\A w \in Workers : Busy(w) => ~resultsClosed /\ Len(results) < Buffer(urls))
  /\ [](resultsClosed => RangeJobsDone /\ Cardinality(Exited) = numWorkers)
  /\ (pc = "workers") ~> jobsClosed
  /\ jobsClosed ~> (Cardinality(Exited) = numWorkers)
  /\ (closer = "wait") ~> resultsClosed
  /\ (pc \in {"workers", "collect"}) ~> (pc = "done")

C35_Witness ==
  /\ pc = "done"
  /\ Len(urls) = MaxURLs
  /\ numWorkers = MaxPool
  /\ Cardinality(Exited) = numWorkers
  /\ resultsClosed
  /\ Len(returned) = Len(urls)
  /\ \E i \in 1..Len(returned) : returned[i].Error = ErrNil
  /\ \E i \in 1..Len(returned) : returned[i].Error # ErrNil

====
